---- MODULE Spec2Model ----
(***************************************************************************)
(* jbdecoder: recursive Base64 decoding of JSON values.                    *)
(*                                                                         *)
(* Go strings and []byte are modelled as sequences of bytes (0..255).      *)
(* A JSON value (Go `any` as produced by encoding/json) is a tagged        *)
(* record:                                                                 *)
(*   [type |-> "null"]                      nil                            *)
(*   [type |-> "bool",   b   |-> BOOLEAN]   bool                           *)
(*   [type |-> "number", num |-> <<s,m,e>>] float64, value s * m * 10^e    *)
(*   [type |-> "string", str |-> bytes]     string                         *)
(*   [type |-> "array",  arr |-> sequence]  []any                          *)
(*   [type |-> "object", obj |-> function]  map[string]any                 *)
(* The library routines the decoder calls (encoding/base64, unicode/utf8,  *)
(* strings.TrimSpace, encoding/json) are modelled by what they compute.    *)
(***************************************************************************)
EXTENDS Integers, Sequences, FiniteSets, TLC

----------------------------------------------------------------------------
(* Program constants                                                       *)

base64BlockSize == 4

validBase64Mod == 0

----------------------------------------------------------------------------
(* Byte-sequence helpers                                                   *)

SubSeqFrom(s, i) == SubSeq(s, i, Len(s))

RECURSIVE Pow10(_)
Pow10(n) == IF n = 0 THEN 1 ELSE 10 * Pow10(n - 1)

RECURSIVE SeqsUpTo(_, _)
\* all sequences over S of length 0..n
SeqsUpTo(S, n) ==
    IF n = 0 THEN {<<>>}
    ELSE LET prev == SeqsUpTo(S, n - 1)
         IN  prev \cup {Append(p, c) : p \in {q \in prev : Len(q) = n - 1}, c \in S}

RECURSIVE Flatten(_)
\* concatenation of a sequence of byte sequences
Flatten(ss) == IF ss = <<>> THEN <<>> ELSE Head(ss) \o Flatten(Tail(ss))

----------------------------------------------------------------------------
(* encoding/base64, StdEncoding: alphabet A-Z a-z 0-9 + /, padding '=',    *)
(* not strict (CR and LF are skipped, trailing padding bits are ignored).  *)

\* StdEncoding.decodeMap: the 6-bit value of an alphabet byte, 255 otherwise
decodeMap(c) ==
    IF c >= 65 /\ c <= 90 THEN c - 65
    ELSE IF c >= 97 /\ c <= 122 THEN c - 71
    ELSE IF c >= 48 /\ c <= 57 THEN c + 4
    ELSE IF c = 43 THEN 62
    ELSE IF c = 47 THEN 63
    ELSE 255

\* StdEncoding.encode table: the alphabet byte of a 6-bit value
encodeMap(v) ==
    IF v < 26 THEN v + 65
    ELSE IF v < 52 THEN v + 71
    ELSE IF v < 62 THEN v - 4
    ELSE IF v = 62 THEN 43
    ELSE 47

RECURSIVE SkipNewlines(_, _)
\* first index >= si of src that holds neither LF nor CR
SkipNewlines(src, si) ==
    IF si <= Len(src) /\ (src[si] = 10 \/ src[si] = 13)
    THEN SkipNewlines(src, si + 1)
    ELSE si

\* the bytes of one quantum: dlen sextets collected give dlen - 1 bytes
QuantumBytes(dbuf, dlen) ==
    LET d   == [i \in 1..4 |-> IF i <= Len(dbuf) THEN dbuf[i] ELSE 0]
        val == d[1] * 262144 + d[2] * 4096 + d[3] * 64 + d[4]
        b0  == val \div 65536
        b1  == (val \div 256) % 256
        b2  == val % 256
    IN  IF dlen = 4 THEN <<b0, b1, b2>>
        ELSE IF dlen = 3 THEN <<b0, b1>>
        ELSE IF dlen = 2 THEN <<b0>>
        ELSE <<>>

RECURSIVE decodeQuantum(_, _, _)
\* (*Encoding).decodeQuantum: reads sextets from index si (1-based) on;
\* dbuf holds the sextets read so far.  Result: next index, bytes, error.
decodeQuantum(src, si, dbuf) ==
    LET j == Len(dbuf) IN
    IF j = 4 THEN [si |-> si, out |-> QuantumBytes(dbuf, 4), err |-> FALSE]
    ELSE IF si > Len(src) THEN
        IF j = 0 THEN [si |-> si, out |-> <<>>, err |-> FALSE]
        ELSE [si |-> si, out |-> <<>>, err |-> TRUE]
    ELSE LET in == src[si] IN
        IF decodeMap(in) # 255 THEN
            decodeQuantum(src, si + 1, Append(dbuf, decodeMap(in)))
        ELSE IF in = 10 \/ in = 13 THEN decodeQuantum(src, si + 1, dbuf)
        ELSE IF in # 61 THEN [si |-> si + 1, out |-> <<>>, err |-> TRUE]
        ELSE IF j < 2 THEN [si |-> si + 1, out |-> <<>>, err |-> TRUE]
        ELSE LET s1 == IF j = 2 THEN SkipNewlines(src, si + 1) ELSE si + 1 IN
            IF j = 2 /\ (s1 > Len(src) \/ src[s1] # 61)
            THEN [si |-> s1, out |-> <<>>, err |-> TRUE]
            ELSE LET s2 == SkipNewlines(src, IF j = 2 THEN s1 + 1 ELSE s1) IN
                [si  |-> s2,
                 out |-> QuantumBytes(dbuf, j),
                 err |-> s2 <= Len(src)]

RECURSIVE DecodeFrom(_, _)
\* (*Encoding).Decode: quantum after quantum until the input ends or fails
DecodeFrom(src, si) ==
    IF si > Len(src) THEN [out |-> <<>>, err |-> FALSE]
    ELSE LET q == decodeQuantum(src, si, <<>>) IN
        IF q.err THEN [out |-> q.out, err |-> TRUE]
        ELSE LET rest == DecodeFrom(src, q.si)
             IN  [out |-> q.out \o rest.out, err |-> rest.err]

\* base64.StdEncoding.DecodeString
DecodeString(s) == DecodeFrom(s, 1)

RECURSIVE EncodeToString(_)
\* base64.StdEncoding.EncodeToString
EncodeToString(b) ==
    IF Len(b) = 0 THEN <<>>
    ELSE IF Len(b) = 1 THEN
        <<encodeMap(b[1] \div 4), encodeMap((b[1] % 4) * 16), 61, 61>>
    ELSE IF Len(b) = 2 THEN
        <<encodeMap(b[1] \div 4),
          encodeMap((b[1] % 4) * 16 + (b[2] \div 16)),
          encodeMap((b[2] % 16) * 4), 61>>
    ELSE <<encodeMap(b[1] \div 4),
           encodeMap((b[1] % 4) * 16 + (b[2] \div 16)),
           encodeMap((b[2] % 16) * 4 + (b[3] \div 64)),
           encodeMap(b[3] % 64)>> \o EncodeToString(SubSeqFrom(b, 4))

----------------------------------------------------------------------------
(* unicode/utf8                                                            *)

IsCont(c) == c >= 128 /\ c <= 191

\* utf8.DecodeRune at index i (1-based): the code point and its width;
\* an invalid or short encoding gives RuneError (65533) with width 1
DecodeRune(p, i) ==
    LET n  == Len(p) - i + 1
        c0 == p[i]
        c1 == IF n >= 2 THEN p[i + 1] ELSE 0
        c2 == IF n >= 3 THEN p[i + 2] ELSE 0
        c3 == IF n >= 4 THEN p[i + 3] ELSE 0
        bad == [r |-> 65533, size |-> 1]
    IN  IF c0 < 128 THEN [r |-> c0, size |-> 1]
        ELSE IF c0 >= 194 /\ c0 <= 223 THEN
            IF n >= 2 /\ IsCont(c1)
            THEN [r |-> (c0 - 192) * 64 + (c1 - 128), size |-> 2] ELSE bad
        ELSE IF c0 >= 224 /\ c0 <= 239 THEN
            IF n >= 3 /\ IsCont(c2)
               /\ c1 >= (IF c0 = 224 THEN 160 ELSE 128)
               /\ c1 <= (IF c0 = 237 THEN 159 ELSE 191)
            THEN [r |-> (c0 - 224) * 4096 + (c1 - 128) * 64 + (c2 - 128),
                  size |-> 3]
            ELSE bad
        ELSE IF c0 >= 240 /\ c0 <= 244 THEN
            IF n >= 4 /\ IsCont(c2) /\ IsCont(c3)
               /\ c1 >= (IF c0 = 240 THEN 144 ELSE 128)
               /\ c1 <= (IF c0 = 244 THEN 143 ELSE 191)
            THEN [r |-> (c0 - 240) * 262144 + (c1 - 128) * 4096
                        + (c2 - 128) * 64 + (c3 - 128),
                  size |-> 4]
            ELSE bad
        ELSE bad

RECURSIVE ValidFrom(_, _)
ValidFrom(p, i) ==
    IF i > Len(p) THEN TRUE
    ELSE LET d == DecodeRune(p, i) IN
        IF d.size = 1 /\ p[i] >= 128 THEN FALSE
        ELSE ValidFrom(p, i + d.size)

\* utf8.Valid
utf8Valid(p) == ValidFrom(p, 1)

\* utf8.AppendRune (r a valid scalar value)
EncodeRune(r) ==
    IF r < 128 THEN <<r>>
    ELSE IF r < 2048 THEN <<192 + (r \div 64), 128 + (r % 64)>>
    ELSE IF r < 65536 THEN
        <<224 + (r \div 4096), 128 + ((r \div 64) % 64), 128 + (r % 64)>>
    ELSE <<240 + (r \div 262144), 128 + ((r \div 4096) % 64),
           128 + ((r \div 64) % 64), 128 + (r % 64)>>

RECURSIVE RuneCountFrom(_, _)
RuneCountFrom(p, i) ==
    IF i > Len(p) THEN 0 ELSE 1 + RuneCountFrom(p, i + DecodeRune(p, i).size)

\* utf8.RuneCount
RuneCount(p) == RuneCountFrom(p, 1)

\* unicode.IsSpace
IsSpace(r) ==
    \/ r >= 9 /\ r <= 13
    \/ r = 32
    \/ r = 133
    \/ r = 160
    \/ r = 5760
    \/ r >= 8192 /\ r <= 8202
    \/ r \in {8232, 8233, 8239, 8287, 12288}

RECURSIVE TrimLeftSpace(_)
TrimLeftSpace(s) ==
    IF s = <<>> THEN s
    ELSE LET d == DecodeRune(s, 1) IN
        IF IsSpace(d.r) THEN TrimLeftSpace(SubSeqFrom(s, 1 + d.size)) ELSE s

RECURSIVE LastRuneStart(_, _, _)
\* utf8.DecodeLastRune: start of the last rune, backing up over at most
\* three continuation bytes; an invalid tail is one byte wide
LastRuneStart(s, i, lim) ==
    IF i > lim /\ i > 1 /\ IsCont(s[i]) THEN LastRuneStart(s, i - 1, lim)
    ELSE i

RECURSIVE TrimRightSpace(_)
TrimRightSpace(s) ==
    IF s = <<>> THEN s
    ELSE LET n     == Len(s)
             start == LastRuneStart(s, n, n - 3)
             d     == DecodeRune(s, start)
             ok    == start + d.size - 1 = n
             r     == IF ok THEN d.r ELSE 65533
             from  == IF ok THEN start ELSE n
         IN  IF IsSpace(r) THEN TrimRightSpace(SubSeq(s, 1, from - 1)) ELSE s

\* strings.TrimSpace
TrimSpace(s) == TrimRightSpace(TrimLeftSpace(s))

----------------------------------------------------------------------------
(* encoding/json: json.Unmarshal into `any`                                *)

NoValue == [ok |-> FALSE]

IsDigit(c) == c >= 48 /\ c <= 57

IsHex(c) == IsDigit(c) \/ (c >= 97 /\ c <= 102) \/ (c >= 65 /\ c <= 70)

HexVal(c) == IF IsDigit(c) THEN c - 48 ELSE IF c >= 97 THEN c - 87 ELSE c - 55

HasPrefixAt(s, i, lit) ==
    i + Len(lit) - 1 <= Len(s) /\ SubSeq(s, i, i + Len(lit) - 1) = lit

RECURSIVE SkipWS(_, _)
\* the scanner's isSpace: space, tab, CR, LF
SkipWS(s, i) ==
    IF i <= Len(s) /\ s[i] \in {32, 9, 13, 10} THEN SkipWS(s, i + 1) ELSE i

RECURSIVE DigitsEnd(_, _)
\* first index >= i that holds no digit
DigitsEnd(s, i) == IF i <= Len(s) /\ IsDigit(s[i]) THEN DigitsEnd(s, i + 1) ELSE i

RECURSIVE DigitsVal(_, _, _, _)
\* the value of the digits s[i..j-1], appended to acc
DigitsVal(s, i, j, acc) ==
    IF i >= j THEN acc ELSE DigitsVal(s, i + 1, j, acc * 10 + (s[i] - 48))

RECURSIVE NumDigits(_)
NumDigits(m) == IF m < 10 THEN 1 ELSE 1 + NumDigits(m \div 10)

RECURSIVE Normalize(_, _, _)
\* the decimal neg, m * 10^e without trailing zeros in m
Normalize(neg, m, e) ==
    IF m = 0 THEN [neg |-> neg, mant |-> 0, exp |-> 0]
    ELSE IF m % 10 = 0 THEN Normalize(neg, m \div 10, e + 1)
    ELSE [neg |-> neg, mant |-> m, exp |-> e]

\* strconv.ParseFloat(s, 64) of a decimal with at most 9 significant
\* digits: a range error above MaxFloat64 (1.7976931348623157e308),
\* zero below the smallest denormal
ConvertNumber(neg, m, e) ==
    LET d   == Normalize(neg, m, e)
        nd  == NumDigits(d.mant)
        top == nd + d.exp
        m9  == d.mant * Pow10(9 - nd)
    IN  IF d.mant = 0 THEN [ok |-> TRUE, num |-> d]
        ELSE IF top > 309 \/ (top = 309 /\ m9 >= 179769314)
            THEN [ok |-> FALSE]
        ELSE IF top < -323 \/ (top = -323 /\ m9 < 247032823)
            THEN [ok |-> TRUE, num |-> [neg |-> neg, mant |-> 0, exp |-> 0]]
        ELSE [ok |-> TRUE, num |-> d]

\* a number literal at s[i]: -? (0 | [1-9][0-9]*) (. [0-9]+)? ([eE] [+-]? [0-9]+)?
ParseNumber(s, i) ==
    LET n    == Len(s)
        neg  == s[i] = 45
        i0   == IF neg THEN i + 1 ELSE i
        i1   == IF i0 <= n /\ s[i0] = 48 THEN i0 + 1 ELSE DigitsEnd(s, i0)
        frac == i1 <= n /\ s[i1] = 46
        f1   == IF frac THEN DigitsEnd(s, i1 + 1) ELSE i1
        hasE == f1 <= n /\ s[f1] \in {101, 69}
        eneg == hasE /\ f1 + 1 <= n /\ s[f1 + 1] = 45
        e0   == IF hasE /\ f1 + 1 <= n /\ s[f1 + 1] \in {43, 45}
                THEN f1 + 2 ELSE f1 + 1
        e1   == IF hasE THEN DigitsEnd(s, e0) ELSE f1
    IN  IF i1 = i0 \/ (frac /\ f1 = i1 + 1) \/ (hasE /\ e1 = e0)
        THEN NoValue
        ELSE LET ip   == DigitsVal(s, i0, i1, 0)
                 m    == IF frac THEN DigitsVal(s, i1 + 1, f1, ip) ELSE ip
                 fd   == IF frac THEN f1 - (i1 + 1) ELSE 0
                 ev   == IF hasE THEN DigitsVal(s, e0, e1, 0) ELSE 0
                 e    == (IF eneg THEN 0 - ev ELSE ev) - fd
                 c    == ConvertNumber(neg, m, e)
             IN  IF c.ok
                 THEN [ok |-> TRUE, v |-> [type |-> "number", num |-> c.num],
                       i |-> e1]
                 ELSE NoValue

\* getu4: the code unit of the four hex digits at s[i..i+3], -1 if malformed
getu4(s, i) ==
    IF i + 3 <= Len(s) /\ \A k \in 0..3 : IsHex(s[i + k])
    THEN HexVal(s[i]) * 4096 + HexVal(s[i + 1]) * 256
         + HexVal(s[i + 2]) * 16 + HexVal(s[i + 3])
    ELSE -1

RECURSIVE ParseString(_, _, _)
\* the string literal whose opening quote precedes s[i]; acc is the text
\* unquoted so far.  Invalid UTF-8 and lone surrogates become U+FFFD.
ParseString(s, i, acc) ==
    IF i > Len(s) THEN NoValue
    ELSE LET c == s[i] IN
        IF c = 34 THEN [ok |-> TRUE, str |-> acc, i |-> i + 1]
        ELSE IF c < 32 THEN NoValue
        ELSE IF c = 92 THEN
            IF i + 1 > Len(s) THEN NoValue
            ELSE LET e == s[i + 1] IN
                IF e \in {34, 92, 47} THEN ParseString(s, i + 2, Append(acc, e))
                ELSE IF e = 98 THEN ParseString(s, i + 2, Append(acc, 8))
                ELSE IF e = 102 THEN ParseString(s, i + 2, Append(acc, 12))
                ELSE IF e = 110 THEN ParseString(s, i + 2, Append(acc, 10))
                ELSE IF e = 114 THEN ParseString(s, i + 2, Append(acc, 13))
                ELSE IF e = 116 THEN ParseString(s, i + 2, Append(acc, 9))
                ELSE IF e = 117 THEN
                    LET rr == getu4(s, i + 2) IN
                    IF rr < 0 THEN NoValue
                    ELSE IF rr < 55296 \/ rr > 57343 THEN
                        ParseString(s, i + 6, acc \o EncodeRune(rr))
                    ELSE LET rr1 == IF HasPrefixAt(s, i + 6, <<92, 117>>)
                                    THEN getu4(s, i + 8) ELSE -1
                         IN  IF rr < 56320 /\ rr1 >= 56320 /\ rr1 <= 57343
                             THEN ParseString(s, i + 12, acc \o EncodeRune(
                                    65536 + (rr - 55296) * 1024 + (rr1 - 56320)))
                             ELSE ParseString(s, i + 6, acc \o <<239, 191, 189>>)
                ELSE NoValue
        ELSE LET d == DecodeRune(s, i) IN
            IF d.size = 1 /\ c >= 128
            THEN ParseString(s, i + 1, acc \o <<239, 191, 189>>)
            ELSE ParseString(s, i + d.size, acc \o SubSeq(s, i, i + d.size - 1))

RECURSIVE ParseValue(_, _)
RECURSIVE ParseElements(_, _, _)
RECURSIVE ParseMembers(_, _, _)

\* the value that starts at s[i] (no leading white space)
ParseValue(s, i) ==
    IF i > Len(s) THEN NoValue
    ELSE LET c == s[i] IN
        IF c = 123 THEN
            LET j == SkipWS(s, i + 1) IN
            IF j <= Len(s) /\ s[j] = 125
            THEN [ok |-> TRUE, v |-> [type |-> "object", obj |-> <<>>], i |-> j + 1]
            ELSE ParseMembers(s, j, <<>>)
        ELSE IF c = 91 THEN
            LET j == SkipWS(s, i + 1) IN
            IF j <= Len(s) /\ s[j] = 93
            THEN [ok |-> TRUE, v |-> [type |-> "array", arr |-> <<>>], i |-> j + 1]
            ELSE ParseElements(s, j, <<>>)
        ELSE IF c = 34 THEN
            LET r == ParseString(s, i + 1, <<>>) IN
            IF r.ok
            THEN [ok |-> TRUE, v |-> [type |-> "string", str |-> r.str], i |-> r.i]
            ELSE NoValue
        ELSE IF c = 45 \/ IsDigit(c) THEN ParseNumber(s, i)
        ELSE IF HasPrefixAt(s, i, <<116, 114, 117, 101>>)
            THEN [ok |-> TRUE, v |-> [type |-> "bool", b |-> TRUE], i |-> i + 4]
        ELSE IF HasPrefixAt(s, i, <<102, 97, 108, 115, 101>>)
            THEN [ok |-> TRUE, v |-> [type |-> "bool", b |-> FALSE], i |-> i + 5]
        ELSE IF HasPrefixAt(s, i, <<110, 117, 108, 108>>)
            THEN [ok |-> TRUE, v |-> [type |-> "null"], i |-> i + 4]
        ELSE NoValue

\* array elements from s[i] on (an element is due); acc holds those read
ParseElements(s, i, acc) ==
    LET r == ParseValue(s, i) IN
    IF ~r.ok THEN NoValue
    ELSE LET j == SkipWS(s, r.i) IN
        IF j > Len(s) THEN NoValue
        ELSE IF s[j] = 44 THEN ParseElements(s, SkipWS(s, j + 1), Append(acc, r.v))
        ELSE IF s[j] = 93
            THEN [ok |-> TRUE, v |-> [type |-> "array", arr |-> Append(acc, r.v)],
                  i |-> j + 1]
        ELSE NoValue

\* object members from s[i] on (a key is due); acc maps the keys read, a
\* repeated key keeps its last value
ParseMembers(s, i, acc) ==
    IF i > Len(s) \/ s[i] # 34 THEN NoValue
    ELSE LET k == ParseString(s, i + 1, <<>>) IN
        IF ~k.ok THEN NoValue
        ELSE LET c == SkipWS(s, k.i) IN
            IF c > Len(s) \/ s[c] # 58 THEN NoValue
            ELSE LET r == ParseValue(s, SkipWS(s, c + 1)) IN
                IF ~r.ok THEN NoValue
                ELSE LET j  == SkipWS(s, r.i)
                         m  == [x \in (DOMAIN acc) \cup {k.str} |->
                                    IF x = k.str THEN r.v ELSE acc[x]]
                     IN  IF j > Len(s) THEN NoValue
                         ELSE IF s[j] = 44 THEN ParseMembers(s, SkipWS(s, j + 1), m)
                         ELSE IF s[j] = 125
                             THEN [ok |-> TRUE, v |-> [type |-> "object", obj |-> m],
                                   i |-> j + 1]
                         ELSE NoValue

\* json.Unmarshal(data, &v) with v of type any: [ok, v]; ok is err == nil
Unmarshal(data) ==
    LET r == ParseValue(data, SkipWS(data, 1)) IN
    IF r.ok /\ SkipWS(data, r.i) > Len(data)
    THEN [ok |-> TRUE, v |-> r.v]
    ELSE NoValue

----------------------------------------------------------------------------
(* encoding/json: json.Marshal of a value of type any                      *)

HexDigit(v) == IF v < 10 THEN 48 + v ELSE 87 + v

RECURSIVE DigitsOf(_)
\* the decimal digits of m >= 0
DigitsOf(m) ==
    IF m < 10 THEN <<48 + m>> ELSE Append(DigitsOf(m \div 10), 48 + (m % 10))

Zeros(n) == [k \in 1..n |-> 48]

\* floatEncoder: strconv 'f' format for 1e-6 <= |f| < 1e21, 'e' otherwise,
\* shortest digits, with e-0X cleaned up to e-X
FormatNumber(num) ==
    LET ds   == DigitsOf(num.mant)
        nd   == Len(ds)
        x    == nd + num.exp - 1
        sign == IF num.neg THEN <<45>> ELSE <<>>
        ax   == IF x < 0 THEN 0 - x ELSE x
        xs   == IF x < 0 /\ ax < 10 THEN DigitsOf(ax)
                ELSE IF ax < 10 THEN <<48>> \o DigitsOf(ax)
                ELSE DigitsOf(ax)
    IN  IF num.mant = 0 THEN sign \o <<48>>
        ELSE IF x < -6 \/ x >= 21 THEN
            sign \o <<ds[1]>>
                 \o (IF nd > 1 THEN <<46>> \o SubSeqFrom(ds, 2) ELSE <<>>)
                 \o <<101, IF x < 0 THEN 45 ELSE 43>> \o xs
        ELSE IF num.exp >= 0 THEN sign \o ds \o Zeros(num.exp)
        ELSE IF nd + num.exp > 0 THEN
            sign \o SubSeq(ds, 1, nd + num.exp) \o <<46>>
                 \o SubSeqFrom(ds, nd + num.exp + 1)
        ELSE sign \o <<48, 46>> \o Zeros(0 - (nd + num.exp)) \o ds

RECURSIVE QuoteFrom(_, _)
\* encodeState.string with escapeHTML: the escaped text of s[i..]
QuoteFrom(s, i) ==
    IF i > Len(s) THEN <<>>
    ELSE LET c == s[i] IN
        IF c < 128 THEN
            (IF c = 34 \/ c = 92 THEN <<92, c>>
             ELSE IF c = 8 THEN <<92, 98>>
             ELSE IF c = 12 THEN <<92, 102>>
             ELSE IF c = 10 THEN <<92, 110>>
             ELSE IF c = 13 THEN <<92, 114>>
             ELSE IF c = 9 THEN <<92, 116>>
             ELSE IF c < 32 \/ c \in {60, 62, 38}
                 THEN <<92, 117, 48, 48, HexDigit(c \div 16), HexDigit(c % 16)>>
             ELSE <<c>>) \o QuoteFrom(s, i + 1)
        ELSE LET d == DecodeRune(s, i) IN
            IF d.size = 1 THEN <<92, 117, 102, 102, 102, 100>> \o QuoteFrom(s, i + 1)
            ELSE IF d.r = 8232 \/ d.r = 8233
                THEN <<92, 117, 50, 48, 50, HexDigit(d.r % 16)>>
                     \o QuoteFrom(s, i + d.size)
            ELSE SubSeq(s, i, i + d.size - 1) \o QuoteFrom(s, i + d.size)

Quote(s) == <<34>> \o QuoteFrom(s, 1) \o <<34>>

RECURSIVE LessBytes(_, _)
\* the order of Go strings: bytewise lexicographic
LessBytes(a, b) ==
    IF b = <<>> THEN FALSE
    ELSE IF a = <<>> THEN TRUE
    ELSE IF a[1] # b[1] THEN a[1] < b[1]
    ELSE LessBytes(Tail(a), Tail(b))

RECURSIVE SortKeys(_)
\* the keys of a map in the order Marshal writes them
SortKeys(K) ==
    IF K = {} THEN <<>>
    ELSE LET k == CHOOSE x \in K : \A y \in K \ {x} : LessBytes(x, y)
         IN  <<k>> \o SortKeys(K \ {k})

RECURSIVE Marshal(_)
RECURSIVE MarshalElements(_, _)
RECURSIVE MarshalMembers(_, _, _)

\* json.Marshal: the compact JSON text of a value
Marshal(v) ==
    IF v.type = "null" THEN <<110, 117, 108, 108>>
    ELSE IF v.type = "bool" THEN
        (IF v.b THEN <<116, 114, 117, 101>> ELSE <<102, 97, 108, 115, 101>>)
    ELSE IF v.type = "number" THEN FormatNumber(v.num)
    ELSE IF v.type = "string" THEN Quote(v.str)
    ELSE IF v.type = "array" THEN <<91>> \o MarshalElements(v.arr, 1) \o <<93>>
    ELSE <<123>> \o MarshalMembers(v.obj, SortKeys(DOMAIN v.obj), 1) \o <<125>>

MarshalElements(a, i) ==
    IF i > Len(a) THEN <<>>
    ELSE (IF i > 1 THEN <<44>> ELSE <<>>) \o Marshal(a[i]) \o MarshalElements(a, i + 1)

MarshalMembers(m, ks, i) ==
    IF i > Len(ks) THEN <<>>
    ELSE (IF i > 1 THEN <<44>> ELSE <<>>) \o Quote(ks[i]) \o <<58>>
         \o Marshal(m[ks[i]]) \o MarshalMembers(m, ks, i + 1)

----------------------------------------------------------------------------
(* internal/decoder                                                        *)

String(s) == [type |-> "string", str |-> s]

\* the length test is left out
IsBase64_NoLengthCheck(s) == ~DecodeString(s).err

\* the decode test is left out
IsBase64_LengthOnly(s) == Len(s) % base64BlockSize = validBase64Mod

\* IsBase64 checks if a string is valid Base64 encoded
IsBase64(s) ==
    IF Len(s) % base64BlockSize # validBase64Mod THEN FALSE
    ELSE ~DecodeString(s).err

\* IsValidJSON checks if a string is valid JSON
IsValidJSON(s) == Unmarshal(s).ok

RECURSIVE DecodeBase64Fields(_)
RECURSIVE DecodeBase64String(_)
RECURSIVE DecodeBase64InMap(_)
RECURSIVE DecodeBase64InSlice(_)

\* DecodeBase64String with one deviation from the source, named by v
DecodeBase64StringVariant(s, v) ==
    IF ~IsBase64(s) THEN String(s)
    ELSE LET dec == DecodeString(s) IN
        IF dec.err THEN String(s)
        ELSE IF (IF v = "NoUTF8Check" THEN FALSE
                 ELSE IF v = "InvertedUTF8Check" THEN utf8Valid(dec.out)
                 ELSE ~utf8Valid(dec.out))
            THEN String(s)
        ELSE LET decodedStr == IF v = "NoTrim" THEN dec.out ELSE TrimSpace(dec.out)
                 text == IF v = "ReturnsError"
                             THEN [type |-> "error", msg |-> "invalid JSON"]
                         ELSE IF v = "Rescan" /\ decodedStr # s
                             THEN DecodeBase64String(decodedStr)
                         ELSE String(decodedStr)
             IN  IF IsValidJSON(decodedStr)
                 THEN LET u == Unmarshal(decodedStr) IN
                      IF u.ok
                      THEN (IF v = "NoRecursion" THEN u.v ELSE DecodeBase64Fields(u.v))
                      ELSE text
                 ELSE text

\* the parsed value is returned as it is, nested strings unresolved
DecodeBase64String_NoRecursion(s) == DecodeBase64StringVariant(s, "NoRecursion")

\* decoded text that is not JSON is resolved once more
DecodeBase64String_Rescan(s) == DecodeBase64StringVariant(s, "Rescan")

\* strings.TrimSpace is left out
DecodeBase64String_NoTrim(s) == DecodeBase64StringVariant(s, "NoTrim")

\* utf8.Valid is left out
DecodeBase64String_NoUTF8Check(s) == DecodeBase64StringVariant(s, "NoUTF8Check")

\* the utf8.Valid test is inverted
DecodeBase64String_InvertedUTF8Check(s) ==
    DecodeBase64StringVariant(s, "InvertedUTF8Check")

\* the error of the failed JSON parse is returned instead of decodedStr
DecodeBase64String_ReturnsError(s) == DecodeBase64StringVariant(s, "ReturnsError")

\* DecodeBase64String: s is a Go string; the result is a value of type any
DecodeBase64String(s) ==
    IF ~IsBase64(s) THEN String(s)
    ELSE LET dec == DecodeString(s) IN
        IF dec.err THEN String(s)
        ELSE IF ~utf8Valid(dec.out) THEN String(s)
        ELSE LET decodedStr == TrimSpace(dec.out) IN
            IF IsValidJSON(decodedStr)
            THEN LET u == Unmarshal(decodedStr) IN
                 IF u.ok THEN DecodeBase64Fields(u.v) ELSE String(decodedStr)
            ELSE String(decodedStr)

\* DecodeBase64InMap: a new map with the same keys
DecodeBase64InMap(m) == [key \in DOMAIN m |-> DecodeBase64Fields(m[key])]

\* make([]any, len(s)) followed by append: len(s) nils, then the elements
DecodeBase64InSlice_MakeThenAppend(s) ==
    [i \in 1..(2 * Len(s)) |->
        IF i <= Len(s) THEN [type |-> "null"] ELSE DecodeBase64Fields(s[i - Len(s)])]

\* DecodeBase64InSlice: a new slice of the same length
DecodeBase64InSlice(s) == [i \in 1..Len(s) |-> DecodeBase64Fields(s[i])]

\* the default case returns nil
DecodeBase64Fields_DefaultNil(data) ==
    IF data.type = "object" THEN [type |-> "object", obj |-> DecodeBase64InMap(data.obj)]
    ELSE IF data.type = "array" THEN [type |-> "array", arr |-> DecodeBase64InSlice(data.arr)]
    ELSE IF data.type = "string" THEN DecodeBase64String(data.str)
    ELSE [type |-> "null"]

\* DecodeBase64Fields: the type switch on data
DecodeBase64Fields(data) ==
    IF data.type = "object" THEN [type |-> "object", obj |-> DecodeBase64InMap(data.obj)]
    ELSE IF data.type = "array" THEN [type |-> "array", arr |-> DecodeBase64InSlice(data.arr)]
    ELSE IF data.type = "string" THEN DecodeBase64String(data.str)
    ELSE data

----------------------------------------------------------------------------
(* Inputs: the values a caller can hand to DecodeBase64Fields              *)

MaxTextLen == 3

MaxRawLen == 4

MaxArrayLen == 2

MaxKeys == 2

MaxLayers == 2

Null == [type |-> "null"]

Bool(b) == [type |-> "bool", b |-> b]

Number(neg, m, e) == [type |-> "number", num |-> [neg |-> neg, mant |-> m, exp |-> e]]

Array(a) == [type |-> "array", arr |-> a]

Object(m) == [type |-> "object", obj |-> m]

\* bytes of decoded payloads: '1', space, LF, '"', '[', ']', the two-byte
\* runes U+00A0 (194 160, a space) and U+00A9 (194 169), and 255, which no
\* UTF-8 text holds
TextAlphabet == {49, 32, 10, 34, 91, 93, 194, 160, 169, 255}

Texts == SeqsUpTo(TextAlphabet, MaxTextLen)

\* the Base64 encodings of every payload
EncodedTexts == {EncodeToString(t) : t \in Texts}

\* characters of raw strings: 'M', 'Q', '=', LF, '@' and U+00E9 (195 169)
RawChars == {<<77>>, <<81>>, <<61>>, <<10>>, <<64>>, <<195, 169>>}

RawStrings == {Flatten(cs) : cs \in SeqsUpTo(RawChars, MaxRawLen)}

\* Base64 text broken by CR LF, as MIME writes it: after the text, and
\* inside its first quantum as well
LineBroken ==
    LET short == {EncodeToString(t) : t \in SeqsUpTo(TextAlphabet, MaxTextLen - 1)}
    IN  {e \o <<13, 10, 13, 10>> : e \in short}
        \cup {SubSeq(e, 1, 2) \o <<13, 10>> \o SubSeqFrom(e, 3) \o <<13, 10>> :
                e \in short \ {<<>>}}

Hi == <<72, 105>>

HelloWorld == <<72, 101, 108, 108, 111, 32, 87, 111, 114, 108, 100>>

ObjA1 == Object([k \in {<<97>>} |-> Number(FALSE, 1, 0)])

Scalars ==
    {Null, Bool(TRUE), Bool(FALSE), Number(FALSE, 0, 0), Number(FALSE, 1, 0),
     Number(FALSE, 42, 0), Number(TRUE, 15, -1)}

\* string leaves: "", "abc", "a@b<", and the Base64 of "Hi", of
\* "Hello World", of 1, of the byte 255, of the JSON text {"a":1}, of the
\* JSON text of the string Base64("Hi"), and of 1e999
LeafStrings ==
    {String(<<>>), String(<<97, 98, 99>>), String(<<97, 64, 98, 60>>),
     String(EncodeToString(Hi)),
     String(EncodeToString(HelloWorld)),
     String(EncodeToString(<<49>>)),
     String(EncodeToString(<<255>>)),
     String(EncodeToString(Marshal(ObjA1))),
     String(EncodeToString(Marshal(String(EncodeToString(Hi))))),
     String(EncodeToString(<<49, 101, 57, 57, 57>>))}

Leaves == Scalars \cup LeafStrings

Keys == {<<96 + i>> : i \in 1..MaxKeys}

ArraysOver(V) == {Array(a) : a \in SeqsUpTo(V, MaxArrayLen)}

ObjectsOver(V) ==
    UNION {{Object(m) : m \in [K -> V]} : K \in SUBSET Keys}

\* containers of leaves
Level1 == ArraysOver(Leaves) \cup ObjectsOver(Leaves)

\* one container nested in another
Level2 ==
    {Array(<<c>>) : c \in Level1}
    \cup {Object([k \in {<<97>>} |-> c]) : c \in Level1}

\* the values whose JSON text is wrapped in Base64 layers
LayerSeeds ==
    Leaves \cup {Array(<<v>>) : v \in Leaves}
           \cup {Object([k \in {<<97>>} |-> v]) : v \in Leaves}

RECURSIVE EncodeLayers(_, _)
\* n Base64 encodings applied on top of each other
EncodeLayers(text, n) ==
    IF n = 0 THEN text ELSE EncodeToString(EncodeLayers(text, n - 1))

\* the argument built from value x and n layers: x itself, or the string
\* Base64^n(Marshal(x))
Wrap(x, n) == IF n = 0 THEN x ELSE String(EncodeLayers(Marshal(x), n))

\* Base64 text of Base64 text, the inner payload being any short byte
\* string: text, binary, or nothing
TwiceEncoded ==
    {EncodeToString(EncodeToString(t)) : t \in SeqsUpTo(TextAlphabet, MaxTextLen - 1)}

Inputs ==
    {[plain |-> String(s), layers |-> 0] :
        s \in EncodedTexts \cup RawStrings \cup LineBroken \cup TwiceEncoded}
    \cup {[plain |-> v, layers |-> 0] : v \in Leaves \cup Level1 \cup Level2}
    \cup {[plain |-> v, layers |-> n] : v \in LayerSeeds, n \in 1..MaxLayers}

----------------------------------------------------------------------------------------------------------------------------------------
(* State                                                                   *)

\* the engine: the argument (built from value plain under layers Base64
\* layers), the control point and the returned value
VARIABLES plain, layers, data, pc, result

\* the shell: which entry point runs, the command line after the program
\* name, standard input, the arguments of the JavaScript call; the parsed
\* flags, the input read and its error; what was written and returned
VARIABLES mode, osArgs, stdin, jsArgs, help, args, jsonData, err,
          stdout, stderr, status, ret

\* concurrent calls of the engine, step by step: the argument of each call,
\* the heap of maps and slices, each call's stack of frames and its
\* returned value, and the heap cells each call has read or written
VARIABLES input, heap, stack, returned, touched, written

engineVars == <<plain, layers, data, pc, result>>

shellVars ==
    <<mode, osArgs, stdin, jsArgs, help, args, jsonData, err,
      stdout, stderr, status, ret>>

callVars == <<input, heap, stack, returned, touched, written>>

vars == <<engineVars, shellVars, callVars>>

NoResult == [type |-> "unset"]

----------------------------------------------------------------------------
(* internal/errors, and the error values of errors, fmt, os and flag       *)

nil == [type |-> "nil"]

NewArgumentError(message) == [type |-> "ArgumentError", message |-> message]

ErrEmptyInput == NewArgumentError("empty input provided")

ErrNoInputProvided == NewArgumentError("no input provided")

\* errors.New
ErrorString(text) == [type |-> "errorString", message |-> text]

\* fmt.Errorf("failed to open file '%s': %w", arg, err)
WrapError(arg, e) ==
    [type |-> "wrapError", message |-> "failed to open file", arg |-> arg, err |-> e]

\* *fs.PathError of os.Open, and the error of a failed read
PathError(op) == [type |-> "PathError", op |-> op]

\* the error flag.Parse prints before it exits
FlagError(text) == [type |-> "flagError", message |-> text]

\* *json.SyntaxError and the other errors of json.Unmarshal
SyntaxError == [type |-> "SyntaxError"]

RECURSIVE AsArgumentError(_)
\* errors.As(err, &argErr) with argErr an errs.ArgumentError: the chain of
\* err holds an ArgumentError
AsArgumentError(e) ==
    IF e.type = "ArgumentError" THEN TRUE
    ELSE IF e.type = "wrapError" THEN AsArgumentError(e.err)
    ELSE FALSE

----------------------------------------------------------------------------
(* flag: the flags -h and -help, both Bool, both bound to one variable     *)

\* strconv.ParseBool: [ok, b]
ParseBool(v) ==
    IF v \in {<<49>>, <<116>>, <<84>>, <<84, 82, 85, 69>>,
              <<116, 114, 117, 101>>, <<84, 114, 117, 101>>}
    THEN [ok |-> TRUE, b |-> TRUE]
    ELSE IF v \in {<<48>>, <<102>>, <<70>>, <<70, 65, 76, 83, 69>>,
                   <<102, 97, 108, 115, 101>>, <<70, 97, 108, 115, 101>>}
    THEN [ok |-> TRUE, b |-> FALSE]
    ELSE [ok |-> FALSE, b |-> FALSE]

\* the names flag.Bool("h", ...) and flag.BoolVar(help, "help", ...) define
FlagNames == {<<104>>, <<104, 101, 108, 112>>}

RECURSIVE IndexOfEquals(_, _)
\* the first position >= i of '=' in name, 0 if there is none
IndexOfEquals(name, i) ==
    IF i > Len(name) THEN 0
    ELSE IF name[i] = 61 THEN i
    ELSE IndexOfEquals(name, i + 1)

RECURSIVE FlagParseFrom(_, _)
\* FlagSet.Parse: parseOne until the first non-flag argument, "--", or an
\* error; [err, help, args], args being flag.Args()
FlagParseFrom(arguments, h) ==
    IF arguments = <<>> THEN [err |-> nil, help |-> h, args |-> <<>>]
    ELSE
    LET s == Head(arguments) IN
    IF Len(s) < 2 \/ s[1] # 45
    THEN [err |-> nil, help |-> h, args |-> arguments]
    ELSE
    LET numMinuses == IF s[2] = 45 THEN 2 ELSE 1 IN
    IF numMinuses = 2 /\ Len(s) = 2
    THEN [err |-> nil, help |-> h, args |-> Tail(arguments)]
    ELSE
    LET rest == SubSeqFrom(s, numMinuses + 1) IN
    IF rest = <<>> \/ rest[1] \in {45, 61}
    THEN [err |-> FlagError("bad flag syntax"), help |-> h, args |-> arguments]
    ELSE
    LET eq       == IndexOfEquals(rest, 2)
        hasValue == eq # 0
        name     == IF hasValue THEN SubSeq(rest, 1, eq - 1) ELSE rest
        value    == IF hasValue THEN SubSeqFrom(rest, eq + 1) ELSE <<>>
    IN
    IF name \notin FlagNames
    THEN [err |-> FlagError("flag provided but not defined"),
          help |-> h, args |-> Tail(arguments)]
    ELSE IF hasValue
    THEN LET b == ParseBool(value) IN
         IF ~b.ok
         THEN [err |-> FlagError("invalid boolean value"),
               help |-> h, args |-> Tail(arguments)]
         ELSE FlagParseFrom(Tail(arguments), b.b)
    ELSE FlagParseFrom(Tail(arguments), TRUE)

\* flag.Parse() on os.Args[1:], help being false before
FlagParse(arguments) == FlagParseFrom(arguments, FALSE)

----------------------------------------------------------------------------
(* os: files and standard input                                            *)

\* a []byte: nil, or the bytes
NilBytes == [nil |-> TRUE, bytes |-> <<>>]

Bytes(b) == [nil |-> FALSE, bytes |-> b]

\* the JSON text {"a":"SGk="}
JSONText == Marshal(Object([k \in {<<97>>} |-> String(EncodeToString(Hi))]))

\* the files there are: d holds JSON text and a line end, e nothing, w
\* white space, b text that is no JSON; . is a directory
FileSystem ==
    (<<100>> :> [dir |-> FALSE, content |-> JSONText \o <<10>>])
    @@ (<<101>> :> [dir |-> FALSE, content |-> <<>>])
    @@ (<<119>> :> [dir |-> FALSE, content |-> <<32, 10>>])
    @@ (<<98>> :> [dir |-> FALSE, content |-> <<123, 34, 97, 34, 58>>])
    @@ (<<46>> :> [dir |-> TRUE, content |-> <<>>])

\* os.Open
Open(name) ==
    IF name \in DOMAIN FileSystem
    THEN [file |-> FileSystem[name], err |-> nil]
    ELSE [file |-> [dir |-> FALSE, content |-> <<>>], err |-> PathError("open")]

\* io.ReadAll(file)
ReadAll(file) ==
    IF file.dir THEN [data |-> NilBytes, err |-> PathError("read")]
    ELSE [data |-> Bytes(file.content), err |-> nil]

\* standard input: Stat fails, or it is a character device, or a pipe or
\* file with a content, which may fail to be read
Stdin(stat, content, readErr) ==
    [stat |-> stat, content |-> content, readErr |-> readErr]

StdinStates ==
    {Stdin("error", <<>>, FALSE), Stdin("chardev", <<>>, FALSE),
     Stdin("pipe", <<>>, TRUE)}
    \cup {Stdin("pipe", c, FALSE) :
            c \in {<<>>, <<32, 10>>, <<194, 160>>, JSONText \o <<10>>,
                   Marshal(String(EncodeToString(Hi))), <<91, 49>>}}

----------------------------------------------------------------------------
(* cmd/cli                                                                 *)

Zero == 0

One == 1

\* what showUsage writes: the help template, executed for the program name
UsageText == [text |-> "usage", programName |-> "jbdecoder"]

\* what fmt.Println(string(output)) writes
Line(output) == [text |-> "line", bytes |-> output \o <<10>>]

\* what fmt.Fprintf(os.Stderr, "<text>: %v\n", err) writes
ErrorLine(text, e) == [text |-> text, err |-> e]

\* isStdinEmpty
isStdinEmpty(in) ==
    IF in.stat = "error" THEN TRUE
    ELSE in.stat = "chardev"

\* the test for white space only is left out
readFromStdin_NoEmptyCheck(in) ==
    IF isStdinEmpty(in) THEN [data |-> NilBytes, err |-> ErrNoInputProvided]
    ELSE IF in.readErr THEN [data |-> NilBytes, err |-> PathError("read")]
    ELSE [data |-> Bytes(in.content), err |-> nil]

\* readFromStdin: [data, err]
readFromStdin(in) ==
    IF isStdinEmpty(in) THEN [data |-> NilBytes, err |-> ErrNoInputProvided]
    ELSE IF in.readErr THEN [data |-> NilBytes, err |-> PathError("read")]
    ELSE IF Len(TrimSpace(in.content)) = Zero
    THEN [data |-> NilBytes, err |-> ErrEmptyInput]
    ELSE [data |-> Bytes(in.content), err |-> nil]

\* the error of os.Open is dropped and the file read as an empty one
processArgument_NoOpenCheck(argument) ==
    LET arg == TrimSpace(argument) IN
    IF HasPrefixAt(arg, 1, <<123>>) \/ HasPrefixAt(arg, 1, <<91>>)
    THEN [data |-> Bytes(arg), err |-> nil]
    ELSE ReadAll(Open(arg).file)

\* an argument that is valid JSON of any kind is taken as JSON text
processArgument_AnyJSONIsText(argument) ==
    LET arg == TrimSpace(argument) IN
    IF IsValidJSON(arg) \/ HasPrefixAt(arg, 1, <<123>>) \/ HasPrefixAt(arg, 1, <<91>>)
    THEN [data |-> Bytes(arg), err |-> nil]
    ELSE LET f == Open(arg) IN
         IF f.err # nil THEN [data |-> NilBytes, err |-> WrapError(arg, f.err)]
         ELSE ReadAll(f.file)

\* processArgument: [data, err]
processArgument(argument) ==
    LET arg == TrimSpace(argument) IN
    IF HasPrefixAt(arg, 1, <<123>>) \/ HasPrefixAt(arg, 1, <<91>>)
    THEN [data |-> Bytes(arg), err |-> nil]
    ELSE LET f == Open(arg) IN
         IF f.err # nil THEN [data |-> NilBytes, err |-> WrapError(arg, f.err)]
         ELSE ReadAll(f.file)

\* too many arguments are an ArgumentError as well
getJSONInput_TooManyIsArgumentError(arguments, in) ==
    IF Len(arguments) = Zero THEN readFromStdin(in)
    ELSE IF Len(arguments) = One THEN processArgument(arguments[1])
    ELSE [data |-> NilBytes,
          err |-> NewArgumentError("too many arguments provided")]

\* getJSONInput: [data, err]
getJSONInput(arguments, in) ==
    IF Len(arguments) = Zero THEN readFromStdin(in)
    ELSE IF Len(arguments) = One THEN processArgument(arguments[1])
    ELSE [data |-> NilBytes, err |-> ErrorString("too many arguments provided")]

----------------------------------------------------------------------------
(* cmd/wasm: the values JavaScript passes                                  *)

JSString(s) == [type |-> "string", str |-> s]

JSNumber(n) == [type |-> "number", n |-> n]

JSUndefined == [type |-> "undefined"]

JSNull == [type |-> "null"]

\* js.Value.String: the string itself, and <T> or <T: V> for other types
ValueString(v) ==
    IF v.type = "string" THEN v.str
    ELSE IF v.type = "undefined"
    THEN <<60, 117, 110, 100, 101, 102, 105, 110, 101, 100, 62>>
    ELSE IF v.type = "null" THEN <<60, 110, 117, 108, 108, 62>>
    ELSE <<60, 110, 117, 109, 98, 101, 114, 58, 32>> \o DigitsOf(v.n) \o <<62>>

----------------------------------------------------------------------------
(* One call of the engine                                                  *)

\* no shell runs
ShellIdle ==
    /\ mode = "engine"
    /\ osArgs = <<>>
    /\ stdin = Stdin("chardev", <<>>, FALSE)
    /\ jsArgs = <<>>
    /\ help = FALSE
    /\ args = <<>>
    /\ jsonData = NilBytes
    /\ err = nil
    /\ stdout = <<>>
    /\ stderr = <<>>
    /\ status = "running"
    /\ ret = NoResult

\* no step-wise call runs
CallsIdle ==
    /\ input = <<>>
    /\ heap = <<>>
    /\ stack = <<>>
    /\ returned = <<>>
    /\ touched = <<>>
    /\ written = <<>>

\* the caller has built its argument and not yet called
Init ==
    /\ \E in \in Inputs :
        /\ plain = in.plain
        /\ layers = in.layers
        /\ data = Wrap(in.plain, in.layers)
    /\ pc = "ready"
    /\ result = NoResult
    /\ ShellIdle
    /\ CallsIdle

\* processedData := decoder.DecodeBase64Fields(data)
Decode ==
    /\ pc = "ready"
    /\ result' = DecodeBase64Fields(data)
    /\ pc' = "done"
    /\ UNCHANGED <<plain, layers, data>>
    /\ UNCHANGED shellVars
    /\ UNCHANGED callVars

Next == Decode

Spec == Init /\ [][Next]_vars

----------------------------------------------------------------------------
(* The shell: one run of the CLI, or one call of decodeJSON                *)

MaxArgs == 2

\* command-line arguments: -h, --help, -h=false, -x, --, the JSON text,
\* the JSON text ["SGk="] between spaces, the text [1, the file names d, m
\* (no such file), e, b and ., the empty argument and a space, and the JSON
\* texts 1 and "SGk=", which name no file
CommandLineArguments ==
    {<<45, 104>>, <<45, 45, 104, 101, 108, 112>>,
     <<45, 104, 61, 102, 97, 108, 115, 101>>, <<45, 120>>, <<45, 45>>,
     JSONText,
     <<32>> \o Marshal(Array(<<String(EncodeToString(Hi))>>)) \o <<32>>,
     <<91, 49>>,
     <<100>>, <<109>>, <<101>>, <<98>>, <<46>>,
     <<>>, <<32>>,
     <<49>>, Marshal(String(EncodeToString(Hi)))}

\* arguments of the JavaScript call: strings (JSON text, the text [1, the
\* JSON text "SGk=", the empty string), a number, undefined and null
JSValues ==
    {JSString(JSONText), JSString(<<91, 49>>),
     JSString(Marshal(String(EncodeToString(Hi)))), JSString(<<>>),
     JSNumber(42), JSUndefined, JSNull}

\* the process has started, or JavaScript has called decodeJSON
ShellInit ==
    /\ \/ /\ mode = "cli"
          /\ osArgs \in SeqsUpTo(CommandLineArguments, MaxArgs)
          /\ stdin \in StdinStates
          /\ jsArgs = <<>>
          /\ pc = "flag.Parse"
       \/ /\ mode = "wasm"
          /\ osArgs = <<>>
          /\ stdin = Stdin("chardev", <<>>, FALSE)
          /\ jsArgs \in SeqsUpTo(JSValues, MaxArgs)
          /\ pc = "decodeJSON"
    /\ plain = NoResult
    /\ layers = 0
    /\ data = NoResult
    /\ result = NoResult
    /\ help = FALSE
    /\ args = <<>>
    /\ jsonData = NilBytes
    /\ err = nil
    /\ stdout = <<>>
    /\ stderr = <<>>
    /\ status = "running"
    /\ ret = NoResult
    /\ CallsIdle

\* main: flag.Parse(); on an error the flag package prints it, calls
\* flag.Usage, which is showUsage, and exits with status 2
ParseFlags ==
    /\ pc = "flag.Parse"
    /\ \E f \in {FlagParse(osArgs)} :
        IF f.err # nil
        THEN /\ stderr' = Append(stderr, ErrorLine("flag", f.err))
             /\ stdout' = Append(stdout, UsageText)
             /\ status' = "exit 2"
             /\ pc' = "exit"
             /\ UNCHANGED <<help, args>>
        ELSE /\ help' = f.help
             /\ args' = f.args
             /\ pc' = "main"
             /\ UNCHANGED <<stdout, stderr, status>>
    /\ UNCHANGED <<plain, layers, data, result>>
    /\ UNCHANGED <<mode, osArgs, stdin, jsArgs, jsonData, err, ret>>
    /\ UNCHANGED callVars

\* main: if *help { showUsage(); return }
ShowHelp ==
    /\ pc = "main"
    /\ help
    /\ stdout' = Append(stdout, UsageText)
    /\ status' = "exit 0"
    /\ pc' = "exit"
    /\ UNCHANGED <<plain, layers, data, result>>
    /\ UNCHANGED <<mode, osArgs, stdin, jsArgs, help, args, jsonData, err,
                   stderr, ret>>
    /\ UNCHANGED callVars

\* main: jsonData, err := getJSONInput()
GetInput ==
    /\ pc = "main"
    /\ ~help
    /\ \E r \in {getJSONInput(args, stdin)} :
        /\ jsonData' = r.data
        /\ err' = r.err
    /\ pc' = "input"
    /\ UNCHANGED <<plain, layers, data, result>>
    /\ UNCHANGED <<mode, osArgs, stdin, jsArgs, help, args, stdout, stderr,
                   status, ret>>
    /\ UNCHANGED callVars

\* main: if err != nil: the usage for an ArgumentError, else the error on
\* stderr and os.Exit(One)
InputError ==
    /\ pc = "input"
    /\ err # nil
    /\ IF AsArgumentError(err)
       THEN /\ stdout' = Append(stdout, UsageText)
            /\ status' = "exit 0"
            /\ UNCHANGED stderr
       ELSE /\ stderr' = Append(stderr, ErrorLine("Error reading input", err))
            /\ status' = "exit 1"
            /\ UNCHANGED stdout
    /\ pc' = "exit"
    /\ UNCHANGED <<plain, layers, data, result>>
    /\ UNCHANGED <<mode, osArgs, stdin, jsArgs, help, args, jsonData, err, ret>>
    /\ UNCHANGED callVars

\* the parse error is dropped and the nil value is processed
ParseJSON_IgnoresError ==
    /\ pc = "input"
    /\ err = nil
    /\ \E parsed \in {Unmarshal(jsonData.bytes)} :
        data' = IF parsed.ok THEN parsed.v ELSE Null
    /\ pc' = "ready"
    /\ UNCHANGED <<plain, layers, result>>
    /\ UNCHANGED shellVars
    /\ UNCHANGED callVars

\* main: json.Unmarshal(jsonData, &data); on an error the error on stderr
\* and os.Exit(One)
ParseJSON ==
    /\ pc = "input"
    /\ err = nil
    /\ \E parsed \in {Unmarshal(jsonData.bytes)} :
        IF ~parsed.ok
        THEN /\ stderr' = Append(stderr, ErrorLine("Error parsing JSON", SyntaxError))
             /\ status' = "exit 1"
             /\ pc' = "exit"
             /\ UNCHANGED data
        ELSE /\ data' = parsed.v
             /\ pc' = "ready"
             /\ UNCHANGED <<stderr, status>>
    /\ UNCHANGED <<plain, layers, result>>
    /\ UNCHANGED <<mode, osArgs, stdin, jsArgs, help, args, jsonData, err,
                   stdout, ret>>
    /\ UNCHANGED callVars

\* main: output, err := json.Marshal(processedData), which does not fail on
\* a JSON value; fmt.Println(string(output)); return
PrintOutput ==
    /\ mode = "cli"
    /\ pc = "done"
    /\ stdout' = Append(stdout, Line(Marshal(result)))
    /\ status' = "exit 0"
    /\ pc' = "exit"
    /\ UNCHANGED <<plain, layers, data, result>>
    /\ UNCHANGED <<mode, osArgs, stdin, jsArgs, help, args, jsonData, err,
                   stderr, ret>>
    /\ UNCHANGED callVars

\* the number of arguments is not tested
DecodeJSONParse_AnyArgumentCount ==
    /\ pc = "decodeJSON"
    /\ \E parsed \in {Unmarshal(IF jsArgs = <<>> THEN ValueString(JSUndefined)
                                  ELSE ValueString(jsArgs[1]))} :
        IF ~parsed.ok
        THEN /\ ret' = [error |-> ErrorLine("Invalid JSON", SyntaxError)]
             /\ pc' = "returned"
             /\ UNCHANGED data
        ELSE /\ data' = parsed.v
             /\ pc' = "ready"
             /\ UNCHANGED ret
    /\ UNCHANGED <<plain, layers, result>>
    /\ UNCHANGED <<mode, osArgs, stdin, jsArgs, help, args, jsonData, err,
                   stdout, stderr, status>>
    /\ UNCHANGED callVars

\* decodeJSON: the test of len(args), jsonStr := args[0].String(), and
\* json.Unmarshal([]byte(jsonStr), &data)
DecodeJSONParse ==
    /\ pc = "decodeJSON"
    /\ IF Len(jsArgs) # 1
       THEN /\ ret' = [error |->
                        ErrorLine("Expected exactly one argument (JSON string)", nil)]
            /\ pc' = "returned"
            /\ UNCHANGED data
       ELSE \E jsonStr \in {ValueString(jsArgs[1])} :
            \E parsed \in {Unmarshal(jsonStr)} :
                IF ~parsed.ok
                THEN /\ ret' = [error |-> ErrorLine("Invalid JSON", SyntaxError)]
                     /\ pc' = "returned"
                     /\ UNCHANGED data
                ELSE /\ data' = parsed.v
                     /\ pc' = "ready"
                     /\ UNCHANGED ret
    /\ UNCHANGED <<plain, layers, result>>
    /\ UNCHANGED <<mode, osArgs, stdin, jsArgs, help, args, jsonData, err,
                   stdout, stderr, status>>
    /\ UNCHANGED callVars

\* decodeJSON: output, err := json.Marshal(processedData), which does not
\* fail on a JSON value; return {"result": string(output)}
DecodeJSONReturn ==
    /\ mode = "wasm"
    /\ pc = "done"
    /\ ret' = [result |-> Marshal(result)]
    /\ pc' = "returned"
    /\ UNCHANGED <<plain, layers, data, result>>
    /\ UNCHANGED <<mode, osArgs, stdin, jsArgs, help, args, jsonData, err,
                   stdout, stderr, status>>
    /\ UNCHANGED callVars

ShellNext ==
    \/ ParseFlags
    \/ ShowHelp
    \/ GetInput
    \/ InputError
    \/ ParseJSON
    \/ Decode
    \/ PrintOutput
    \/ DecodeJSONParse
    \/ DecodeJSONReturn

ShellSpec == ShellInit /\ [][ShellNext]_vars

----------------------------------------------------------------------------
(* Calls of the engine run step by step, several at a time                 *)

MaxCalls == 2

Calls == 1..MaxCalls

\* the owner of package-level cells; every call owns the cells of its own
\* argument and those it creates
PackageLevel == 0

\* a map or slice value: the address <<owner, index>> of its cell
MapRef(a) == [type |-> "object", addr |-> a]

SliceRef(a) == [type |-> "array", addr |-> a]

NoAddr == <<PackageLevel, 0>>

MapCell(m) == [kind |-> "map", m |-> m]

SliceCell(elems) == [kind |-> "slice", s |-> elems]

EmptyHeap == [o \in {PackageLevel} \cup Calls |-> <<>>]

Cell(h, a) == h[a[1]][a[2]]

\* a new cell of owner o: [heap, addr]
NewCell(h, o, cell) ==
    [heap |-> [h EXCEPT ![o] = Append(@, cell)], addr |-> <<o, Len(h[o]) + 1>>]

\* one map for all calls, kept in a package-level variable
NewMap_PackageLevel(c, h) ==
    IF h[PackageLevel] = <<>>
    THEN NewCell(h, PackageLevel, MapCell([k \in {} |-> Null]))
    ELSE [heap |-> h, addr |-> <<PackageLevel, 1>>]

\* result := make(map[string]any)
NewMap(c, h) == NewCell(h, c, MapCell([k \in {} |-> Null]))

\* result := make([]any, len(s))
NewSlice(c, h, n) == NewCell(h, c, SliceCell([i \in 1..n |-> Null]))

RECURSIVE Store(_, _, _)
RECURSIVE StoreAll(_, _, _, _, _)

\* the tree of value v built in cells of owner o, as the caller's argument
\* or as json.Unmarshal builds jsonObj: [heap, val]
Store(h, o, v) ==
    IF v.type = "array" THEN
        LET r == StoreAll(h, o, v.arr, 1, <<>>)
            n == NewCell(r.heap, o, SliceCell(r.vals))
        IN  [heap |-> n.heap, val |-> SliceRef(n.addr)]
    ELSE IF v.type = "object" THEN
        LET keys == SortKeys(DOMAIN v.obj)
            r == StoreAll(h, o, [i \in 1..Len(keys) |-> v.obj[keys[i]]], 1, <<>>)
            n == NewCell(r.heap, o,
                    MapCell([k \in DOMAIN v.obj |->
                        r.vals[CHOOSE i \in 1..Len(keys) : keys[i] = k]]))
        IN  [heap |-> n.heap, val |-> MapRef(n.addr)]
    ELSE [heap |-> h, val |-> v]

StoreAll(h, o, vs, i, acc) ==
    IF i > Len(vs) THEN [heap |-> h, vals |-> acc]
    ELSE LET r == Store(h, o, vs[i])
         IN  StoreAll(r.heap, o, vs, i + 1, Append(acc, r.val))

RECURSIVE Load(_, _)
\* the JSON value a heap value stands for
Load(h, v) ==
    IF v.type = "array" THEN
        Array([i \in 1..Len(Cell(h, v.addr).s) |-> Load(h, Cell(h, v.addr).s[i])])
    ELSE IF v.type = "object" THEN
        Object([k \in DOMAIN Cell(h, v.addr).m |-> Load(h, Cell(h, v.addr).m[k])])
    ELSE v

\* the frames of the four functions
FieldsFrame(v) == [fn |-> "DecodeBase64Fields", pc |-> "switch", data |-> v]

MapFrame(a) ==
    [fn |-> "DecodeBase64InMap", pc |-> "make", m |-> a, result |-> NoAddr,
     todo |-> {}, key |-> <<>>]

SliceFrame(a) ==
    [fn |-> "DecodeBase64InSlice", pc |-> "make", s |-> a, result |-> NoAddr,
     i |-> 0]

StringFrame(s) == [fn |-> "DecodeBase64String", pc |-> "decode", s |-> s]

Top(c) == stack[c][Len(stack[c])]

Pop(st) == SubSeq(st, 1, Len(st) - 1)

SetTop(st, f) == [st EXCEPT ![Len(st)] = f]

\* the top frame of call c is one of function fn at point at
At(c, fn, at) ==
    /\ stack[c] # <<>>
    /\ Top(c).fn = fn
    /\ Top(c).pc = at

\* decoded text that is not JSON is resolved once more
DecodeBase64StringStep_Rescan(s) ==
    IF ~IsBase64(s) THEN [recurse |-> FALSE, v |-> String(s)]
    ELSE IF ~utf8Valid(DecodeString(s).out) THEN [recurse |-> FALSE, v |-> String(s)]
    ELSE IF IsValidJSON(TrimSpace(DecodeString(s).out))
    THEN [recurse |-> TRUE, v |-> Unmarshal(TrimSpace(DecodeString(s).out)).v]
    ELSE [recurse |-> TRUE, v |-> String(TrimSpace(DecodeString(s).out))]

\* the call after json.Unmarshal is DecodeBase64Fields(s), not
\* DecodeBase64Fields(jsonObj)
DecodeBase64StringStep_RecurseOnArgument(s) ==
    IF ~IsBase64(s) THEN [recurse |-> FALSE, v |-> String(s)]
    ELSE IF ~utf8Valid(DecodeString(s).out) THEN [recurse |-> FALSE, v |-> String(s)]
    ELSE IF IsValidJSON(TrimSpace(DecodeString(s).out))
    THEN [recurse |-> TRUE, v |-> String(s)]
    ELSE [recurse |-> FALSE, v |-> String(TrimSpace(DecodeString(s).out))]

\* DecodeBase64String up to its return or its call of DecodeBase64Fields:
\* the value returned, or (recurse) the jsonObj handed on
DecodeBase64StringStep(s) ==
    IF ~IsBase64(s) THEN [recurse |-> FALSE, v |-> String(s)]
    ELSE LET dec == DecodeString(s) IN
        IF dec.err THEN [recurse |-> FALSE, v |-> String(s)]
        ELSE IF ~utf8Valid(dec.out) THEN [recurse |-> FALSE, v |-> String(s)]
        ELSE LET decodedStr == TrimSpace(dec.out) IN
            IF IsValidJSON(decodedStr)
            THEN LET u == Unmarshal(decodedStr) IN
                 IF u.ok THEN [recurse |-> TRUE, v |-> u.v]
                 ELSE [recurse |-> FALSE, v |-> String(decodedStr)]
            ELSE [recurse |-> FALSE, v |-> String(decodedStr)]

\* the arguments of the calls: ["SGk=", 1]; {"a": Base64 of {"a":1},
\* "b": ["abc"]}; Base64 of [[1]]; the empty string; Base64 of the byte
\* 255; and [[Base64 of the JSON text "SGk="]]
CallInputs ==
    <<Array(<<String(EncodeToString(Hi)), Number(FALSE, 1, 0)>>),
      Object((<<97>> :> String(EncodeToString(Marshal(ObjA1))))
             @@ (<<98>> :> Array(<<String(<<97, 98, 99>>)>>))),
      String(EncodeToString(Marshal(Array(<<Array(<<Number(FALSE, 1, 0)>>)>>)))),
      String(<<>>),
      String(EncodeToString(<<255>>)),
      Array(<<Array(<<String(EncodeToString(Marshal(String(EncodeToString(Hi)))))>>)>>)>>

\* every call is about to start on an argument of its own
CallsInit ==
    /\ \E f \in [Calls -> 1..Len(CallInputs)] :
        /\ \A c \in Calls : c + 1 \in Calls => f[c] < f[c + 1]
        /\ input = [c \in Calls |-> CallInputs[f[c]]]
    /\ heap = [o \in {PackageLevel} \cup Calls |->
                IF o = PackageLevel THEN <<>>
                ELSE Store(EmptyHeap, o, input[o]).heap[o]]
    /\ stack = [c \in Calls |-> <<FieldsFrame(Store(EmptyHeap, c, input[c]).val)>>]
    /\ returned = [c \in Calls |-> NoResult]
    /\ touched = [c \in Calls |-> {}]
    /\ written = [c \in Calls |-> {}]
    /\ plain = NoResult
    /\ layers = 0
    /\ data = NoResult
    /\ pc = "calls"
    /\ result = NoResult
    /\ ShellIdle

\* DecodeBase64Fields: the type switch calls the function of the type
FieldsCall(c) ==
    /\ At(c, "DecodeBase64Fields", "switch")
    /\ Top(c).data.type \in {"object", "array", "string"}
    /\ stack' = [stack EXCEPT ![c] =
            Append(SetTop(@, [Top(c) EXCEPT !.pc = "return"]),
                   IF Top(c).data.type = "object" THEN MapFrame(Top(c).data.addr)
                   ELSE IF Top(c).data.type = "array" THEN SliceFrame(Top(c).data.addr)
                   ELSE StringFrame(Top(c).data.str))]
    /\ UNCHANGED <<input, heap, returned, touched, written>>
    /\ UNCHANGED <<engineVars, shellVars>>

\* DecodeBase64Fields: default: return v
FieldsDefault(c) ==
    /\ At(c, "DecodeBase64Fields", "switch")
    /\ Top(c).data.type \notin {"object", "array", "string"}
    /\ returned' = [returned EXCEPT ![c] = Top(c).data]
    /\ stack' = [stack EXCEPT ![c] = Pop(@)]
    /\ UNCHANGED <<input, heap, touched, written>>
    /\ UNCHANGED <<engineVars, shellVars>>

\* DecodeBase64Fields: return what the function called has returned
FieldsReturn(c) ==
    /\ At(c, "DecodeBase64Fields", "return")
    /\ stack' = [stack EXCEPT ![c] = Pop(@)]
    /\ UNCHANGED <<input, heap, returned, touched, written>>
    /\ UNCHANGED <<engineVars, shellVars>>

\* DecodeBase64InMap: result := make(map[string]any), and the range over m
\* begins
MapMake(c) ==
    /\ At(c, "DecodeBase64InMap", "make")
    /\ \E n \in {NewMap(c, heap)} :
        /\ heap' = n.heap
        /\ stack' = [stack EXCEPT ![c] =
                SetTop(@, [Top(c) EXCEPT !.pc = "range", !.result = n.addr,
                                         !.todo = DOMAIN Cell(heap, Top(c).m).m])]
    /\ touched' = [touched EXCEPT ![c] = @ \cup {Top(c).m}]
    /\ UNCHANGED <<input, returned, written>>
    /\ UNCHANGED <<engineVars, shellVars>>

\* DecodeBase64InMap: the next key and value of m, in any order, and the
\* call DecodeBase64Fields(value)
MapNext(c) ==
    /\ At(c, "DecodeBase64InMap", "range")
    /\ \E key \in Top(c).todo :
        stack' = [stack EXCEPT ![c] =
            Append(SetTop(@, [Top(c) EXCEPT !.pc = "store", !.key = key]),
                   FieldsFrame(Cell(heap, Top(c).m).m[key]))]
    /\ touched' = [touched EXCEPT ![c] = @ \cup {Top(c).m}]
    /\ UNCHANGED <<input, heap, returned, written>>
    /\ UNCHANGED <<engineVars, shellVars>>

\* the value is stored into m itself
MapStore_IntoInput(c) ==
    /\ At(c, "DecodeBase64InMap", "store")
    /\ heap' = [heap EXCEPT ![Top(c).m[1]][Top(c).m[2]].m =
                    (Top(c).key :> returned[c]) @@ @]
    /\ stack' = [stack EXCEPT ![c] =
            SetTop(@, [Top(c) EXCEPT !.pc = "range", !.todo = @ \ {Top(c).key}])]
    /\ touched' = [touched EXCEPT ![c] = @ \cup {Top(c).m}]
    /\ written' = [written EXCEPT ![c] = @ \cup {Top(c).m}]
    /\ UNCHANGED <<input, returned>>
    /\ UNCHANGED <<engineVars, shellVars>>

\* DecodeBase64InMap: result[key] = what DecodeBase64Fields(value) returned
MapStore(c) ==
    /\ At(c, "DecodeBase64InMap", "store")
    /\ heap' = [heap EXCEPT ![Top(c).result[1]][Top(c).result[2]].m =
                    (Top(c).key :> returned[c]) @@ @]
    /\ stack' = [stack EXCEPT ![c] =
            SetTop(@, [Top(c) EXCEPT !.pc = "range", !.todo = @ \ {Top(c).key}])]
    /\ touched' = [touched EXCEPT ![c] = @ \cup {Top(c).result}]
    /\ written' = [written EXCEPT ![c] = @ \cup {Top(c).result}]
    /\ UNCHANGED <<input, returned>>
    /\ UNCHANGED <<engineVars, shellVars>>

\* DecodeBase64InMap: the range is over: return result
MapReturn(c) ==
    /\ At(c, "DecodeBase64InMap", "range")
    /\ Top(c).todo = {}
    /\ returned' = [returned EXCEPT ![c] = MapRef(Top(c).result)]
    /\ stack' = [stack EXCEPT ![c] = Pop(@)]
    /\ UNCHANGED <<input, heap, touched, written>>
    /\ UNCHANGED <<engineVars, shellVars>>

\* DecodeBase64InSlice: result := make([]any, len(s)), and the range over s
\* begins
SliceMake(c) ==
    /\ At(c, "DecodeBase64InSlice", "make")
    /\ \E n \in {NewSlice(c, heap, Len(Cell(heap, Top(c).s).s))} :
        /\ heap' = n.heap
        /\ stack' = [stack EXCEPT ![c] =
                SetTop(@, [Top(c) EXCEPT !.pc = "range", !.result = n.addr,
                                         !.i = 1])]
    /\ touched' = [touched EXCEPT ![c] = @ \cup {Top(c).s}]
    /\ UNCHANGED <<input, returned, written>>
    /\ UNCHANGED <<engineVars, shellVars>>

\* DecodeBase64InSlice: the next index and value of s, and the call
\* DecodeBase64Fields(value)
SliceNext(c) ==
    /\ At(c, "DecodeBase64InSlice", "range")
    /\ Top(c).i <= Len(Cell(heap, Top(c).s).s)
    /\ stack' = [stack EXCEPT ![c] =
            Append(SetTop(@, [Top(c) EXCEPT !.pc = "store"]),
                   FieldsFrame(Cell(heap, Top(c).s).s[Top(c).i]))]
    /\ touched' = [touched EXCEPT ![c] = @ \cup {Top(c).s}]
    /\ UNCHANGED <<input, heap, returned, written>>
    /\ UNCHANGED <<engineVars, shellVars>>

\* DecodeBase64InSlice: result[i] = what DecodeBase64Fields(value) returned
SliceStore(c) ==
    /\ At(c, "DecodeBase64InSlice", "store")
    /\ heap' = [heap EXCEPT ![Top(c).result[1]][Top(c).result[2]].s[Top(c).i] =
                    returned[c]]
    /\ stack' = [stack EXCEPT ![c] =
            SetTop(@, [Top(c) EXCEPT !.pc = "range", !.i = @ + 1])]
    /\ touched' = [touched EXCEPT ![c] = @ \cup {Top(c).result}]
    /\ written' = [written EXCEPT ![c] = @ \cup {Top(c).result}]
    /\ UNCHANGED <<input, returned>>
    /\ UNCHANGED <<engineVars, shellVars>>

\* DecodeBase64InSlice: the range is over: return result
SliceReturn(c) ==
    /\ At(c, "DecodeBase64InSlice", "range")
    /\ Top(c).i > Len(Cell(heap, Top(c).s).s)
    /\ returned' = [returned EXCEPT ![c] = SliceRef(Top(c).result)]
    /\ stack' = [stack EXCEPT ![c] = Pop(@)]
    /\ UNCHANGED <<input, heap, touched, written>>
    /\ UNCHANGED <<engineVars, shellVars>>

\* DecodeBase64String: the tests, the decoding and the trimming; then
\* return s or decodedStr, or json.Unmarshal builds jsonObj and
\* DecodeBase64Fields(jsonObj) is called
StringDecode(c) ==
    /\ At(c, "DecodeBase64String", "decode")
    /\ \E r \in {DecodeBase64StringStep(Top(c).s)} :
        IF r.recurse
        THEN \E st \in {Store(heap, c, r.v)} :
                /\ heap' = st.heap
                /\ stack' = [stack EXCEPT ![c] =
                        Append(SetTop(@, [Top(c) EXCEPT !.pc = "return"]),
                               FieldsFrame(st.val))]
                /\ UNCHANGED returned
        ELSE /\ returned' = [returned EXCEPT ![c] = r.v]
             /\ stack' = [stack EXCEPT ![c] = Pop(@)]
             /\ UNCHANGED heap
    /\ UNCHANGED <<input, touched, written>>
    /\ UNCHANGED <<engineVars, shellVars>>

\* DecodeBase64String: return what DecodeBase64Fields(jsonObj) returned
StringReturn(c) ==
    /\ At(c, "DecodeBase64String", "return")
    /\ stack' = [stack EXCEPT ![c] = Pop(@)]
    /\ UNCHANGED <<input, heap, returned, touched, written>>
    /\ UNCHANGED <<engineVars, shellVars>>

CallsNext ==
    \/ \E c \in Calls : FieldsCall(c)
    \/ \E c \in Calls : FieldsDefault(c)
    \/ \E c \in Calls : FieldsReturn(c)
    \/ \E c \in Calls : MapMake(c)
    \/ \E c \in Calls : MapNext(c)
    \/ \E c \in Calls : MapStore(c)
    \/ \E c \in Calls : MapReturn(c)
    \/ \E c \in Calls : SliceMake(c)
    \/ \E c \in Calls : SliceNext(c)
    \/ \E c \in Calls : SliceStore(c)
    \/ \E c \in Calls : SliceReturn(c)
    \/ \E c \in Calls : StringDecode(c)
    \/ \E c \in Calls : StringReturn(c)

CallsSpec == CallsInit /\ [][CallsNext]_vars

----------------------------------------------------------------------------
(* Properties                                                              *)

\* a Base64 candidate: length a multiple of 4 and decodable
Candidate(s) == Len(s) % 4 = 0 /\ ~DecodeString(s).err

\* the decoded bytes of a candidate
Decoded(s) == DecodeString(s).out

\* the decoded text of a candidate, trimmed
Trimmed(s) == TrimSpace(DecodeString(s).out)

\* C1: round trip.  When the argument is Base64(Marshal(x)) the call returns
\* what it returns on x itself; and whenever the trimmed decoded text of a
\* Base64 candidate parses as JSON, the result is the decoding of the parsed
\* value, not the text.
RoundTrip ==
    pc = "done" =>
        /\ (layers = 1 => result = DecodeBase64Fields(plain))
        /\ (data.type = "string" /\ Candidate(data.str)
                /\ utf8Valid(Decoded(data.str))
                /\ Unmarshal(Trimmed(data.str)).ok
            => result = DecodeBase64Fields(Unmarshal(Trimmed(data.str)).v))

\* one layer around an object that itself holds a Base64 string: the
\* inner string is resolved too
RoundTripWitness ==
    /\ pc = "done"
    /\ layers = 1
    /\ plain = Object([k \in {<<97>>} |-> String(EncodeToString(Hi))])
    /\ result = Object([k \in {<<97>>} |-> String(Hi)])

\* C2 as stated: any number n >= 1 of Base64 layers directly on top of each
\* other around Marshal(x) is fully unwrapped by one call.
MultiLayerFullyUnwraps ==
    pc = "done" /\ layers >= 1 => result = DecodeBase64Fields(plain)

\* C2 amended: one layer is fully unwrapped; of n >= 2 layers directly on
\* top of each other one call removes the outermost only and returns the
\* Base64 text of the remaining n - 1 layers as a string.
MultiLayerOuterOnly ==
    pc = "done" /\ layers >= 1 =>
        result = IF layers = 1 THEN DecodeBase64Fields(plain)
                 ELSE String(EncodeLayers(Marshal(plain), layers - 1))

\* Base64(Base64({"a":1})) comes back as the string Base64({"a":1})
MultiLayerWitness ==
    /\ pc = "done"
    /\ layers = 2
    /\ plain = ObjA1
    /\ result = String(EncodeToString(Marshal(ObjA1)))

\* C3: plain-text decode.  A Base64 candidate whose decoded bytes are valid
\* UTF-8 and whose trimmed decoded text is not valid JSON resolves to that
\* trimmed text.
PlainTextDecode ==
    pc = "done" /\ data.type = "string" /\ Candidate(data.str)
        /\ utf8Valid(Decoded(data.str)) /\ ~Unmarshal(Trimmed(data.str)).ok
    => result = String(Trimmed(data.str))

\* a candidate whose decoded text is not JSON and loses white space
PlainTextWitness ==
    /\ pc = "done"
    /\ data.type = "string"
    /\ Candidate(data.str)
    /\ utf8Valid(Decoded(data.str))
    /\ ~Unmarshal(Trimmed(data.str)).ok
    /\ Trimmed(data.str) # Decoded(data.str)
    /\ Trimmed(data.str) # <<>>
    /\ result = String(Trimmed(data.str))

\* C4 as stated: a string that is not valid Base64, or whose decoded bytes
\* are not valid UTF-8, or whose decoded text is not valid JSON, is
\* returned unchanged.
FailSafeIdentity ==
    pc = "done" /\ data.type = "string"
        /\ (\/ ~Candidate(data.str)
            \/ ~utf8Valid(Decoded(data.str))
            \/ ~Unmarshal(Trimmed(data.str)).ok)
    => result = data

\* C4 amended: a string that is not valid Base64, or whose decoded bytes are
\* not valid UTF-8, is returned unchanged; a candidate whose decoded bytes
\* are valid UTF-8 but not valid JSON is replaced by its trimmed decoded
\* text.
FailSafeTwoCases ==
    pc = "done" /\ data.type = "string" =>
        /\ (~Candidate(data.str) => result = data)
        /\ (Candidate(data.str) /\ ~utf8Valid(Decoded(data.str)) => result = data)
        /\ (Candidate(data.str) /\ utf8Valid(Decoded(data.str))
                /\ ~Unmarshal(Trimmed(data.str)).ok
            => result = String(Trimmed(data.str)))

\* a string of the right length that does not decode, left as it was
FailSafeWitness ==
    /\ pc = "done"
    /\ data.type = "string"
    /\ data.str # <<>>
    /\ Len(data.str) % 4 = 0
    /\ DecodeString(data.str).err
    /\ result = data

\* the string is the standard encoding of bytes that are not valid UTF-8
BinaryBase64(v) ==
    /\ v.type = "string"
    /\ ~DecodeString(v.str).err
    /\ EncodeToString(Decoded(v.str)) = v.str
    /\ ~utf8Valid(Decoded(v.str))

RECURSIVE BinaryKept(_, _)
\* out holds every BinaryBase64 string of in, at the place it has in in
BinaryKept(in, out) ==
    IF BinaryBase64(in) THEN out = in
    ELSE IF in.type = "array" THEN
        /\ out.type = "array"
        /\ Len(out.arr) = Len(in.arr)
        /\ \A i \in 1..Len(in.arr) : BinaryKept(in.arr[i], out.arr[i])
    ELSE IF in.type = "object" THEN
        /\ out.type = "object"
        /\ DOMAIN out.obj = DOMAIN in.obj
        /\ \A k \in DOMAIN in.obj : BinaryKept(in.obj[k], out.obj[k])
    ELSE TRUE

\* C5: binary safety.  The Base64 encoding of bytes that are not valid UTF-8
\* is returned unchanged, at the root and at every place in the tree.
BinarySafety == pc = "done" => BinaryKept(data, result)

\* an array holding binary Base64 next to a string that is decoded
BinarySafetyWitness ==
    /\ pc = "done"
    /\ data.type = "array"
    /\ Len(data.arr) = 2
    /\ BinaryBase64(data.arr[1])
    /\ result.arr[1] = data.arr[1]
    /\ result.arr[2] # data.arr[2]

\* C6: a string whose length (in bytes, as len(s) counts, or in characters)
\* is not a multiple of 4 is returned unchanged; with a byte length that is
\* no multiple of 4 it is no Base64 candidate.
LengthNotMultipleOf4 ==
    pc = "done" /\ data.type = "string" =>
        /\ (Len(data.str) % 4 # 0 \/ RuneCount(data.str) % 4 # 0 => result = data)
        /\ (Len(data.str) % 4 # 0 => ~IsBase64(data.str))

\* a string the decoder would accept, were its length a multiple of 4
LengthWitness ==
    /\ pc = "done"
    /\ data.type = "string"
    /\ Len(data.str) % 4 # 0
    /\ ~DecodeString(data.str).err
    /\ result = data

\* the bytes of the standard alphabet
Alphabet == (65..90) \cup (97..122) \cup (48..57) \cup {43, 47}

HasByteOutside(s, allowed) == \E i \in 1..Len(s) : s[i] \notin allowed

\* C7 as stated: a string with a character outside the alphabet and '=' is
\* rejected by the validity test and returned unchanged.
StrictAlphabet ==
    pc = "done" /\ data.type = "string"
        /\ HasByteOutside(data.str, Alphabet \cup {61})
    => ~IsBase64(data.str) /\ result = data

\* C7 amended: a string with a character other than those of the alphabet,
\* '=', CR and LF is rejected by the validity test and returned unchanged,
\* whatever its length; CR and LF are skipped by the decoder.
AlphabetButNewlines ==
    pc = "done" /\ data.type = "string"
        /\ HasByteOutside(data.str, Alphabet \cup {61, 13, 10})
    => ~IsBase64(data.str) /\ result = data

\* "MQ@=": a length that is a multiple of 4, and an '@' among Base64 bytes
AlphabetWitness ==
    /\ pc = "done"
    /\ data = String(<<77, 81, 64, 61>>)
    /\ ~IsBase64(data.str)
    /\ result = data

RECURSIVE ScalarsKept(_, _)
\* out holds every number, boolean and null of in, at the place it has in in
ScalarsKept(in, out) ==
    IF in.type \in {"number", "bool", "null"} THEN out = in
    ELSE IF in.type = "array" THEN
        /\ out.type = "array"
        /\ Len(out.arr) = Len(in.arr)
        /\ \A i \in 1..Len(in.arr) : ScalarsKept(in.arr[i], out.arr[i])
    ELSE IF in.type = "object" THEN
        /\ out.type = "object"
        /\ DOMAIN out.obj = DOMAIN in.obj
        /\ \A k \in DOMAIN in.obj : ScalarsKept(in.obj[k], out.obj[k])
    ELSE TRUE

\* C8: scalar identity.  A number, boolean or null, at the root or as a leaf
\* of any object or array, comes back with the same type and value.
ScalarIdentity == pc = "done" => ScalarsKept(data, result)

\* an object with a number next to a string that is decoded
ScalarIdentityWitness ==
    /\ pc = "done"
    /\ data = Object([k \in {<<97>>, <<98>>} |->
                IF k = <<97>> THEN String(EncodeToString(HelloWorld))
                ELSE Number(FALSE, 42, 0)])
    /\ result = Object([k \in {<<97>>, <<98>>} |->
                IF k = <<97>> THEN String(HelloWorld) ELSE Number(FALSE, 42, 0)])

RECURSIVE ShapeKept(_, _)
\* out has the objects and arrays of in: the same keys, the same length,
\* and at each key or index the decoding of what in holds there
ShapeKept(in, out) ==
    IF in.type = "object" THEN
        /\ out.type = "object"
        /\ DOMAIN out.obj = DOMAIN in.obj
        /\ \A k \in DOMAIN in.obj :
            /\ out.obj[k] = DecodeBase64Fields(in.obj[k])
            /\ ShapeKept(in.obj[k], out.obj[k])
    ELSE IF in.type = "array" THEN
        /\ out.type = "array"
        /\ Len(out.arr) = Len(in.arr)
        /\ \A i \in 1..Len(in.arr) :
            /\ out.arr[i] = DecodeBase64Fields(in.arr[i])
            /\ ShapeKept(in.arr[i], out.arr[i])
    ELSE TRUE

\* C9: shape preservation.  An object comes back as an object with the same
\* keys, an array as an array of the same length, each entry the decoding
\* of the input's entry at that key or index, at every level of the input.
ShapePreservation == pc = "done" => ShapeKept(data, result)

\* an object in an array, both kept, with a leaf that changed
ShapeWitness ==
    /\ pc = "done"
    /\ data.type = "array"
    /\ Len(data.arr) = 1
    /\ data.arr[1].type = "object"
    /\ DOMAIN data.arr[1].obj = Keys
    /\ result.type = "array"
    /\ Len(result.arr) = 1
    /\ DOMAIN result.arr[1].obj = Keys
    /\ result # data

RECURSIVE IsJSONValue(_)
\* the values encoding/json works with: nil, bool, float64, string, []any,
\* map[string]any
IsJSONValue(v) ==
    \/ v = [type |-> "null"]
    \/ v.type = "bool" /\ DOMAIN v = {"type", "b"} /\ v.b \in BOOLEAN
    \/ /\ v.type = "number"
       /\ DOMAIN v = {"type", "num"}
       /\ v.num.neg \in BOOLEAN
       /\ v.num.mant \in Nat
       /\ v.num.exp \in Int
    \/ /\ v.type = "string"
       /\ DOMAIN v = {"type", "str"}
       /\ \A i \in 1..Len(v.str) : v.str[i] \in 0..255
    \/ /\ v.type = "array"
       /\ DOMAIN v = {"type", "arr"}
       /\ \A i \in 1..Len(v.arr) : IsJSONValue(v.arr[i])
    \/ /\ v.type = "object"
       /\ DOMAIN v = {"type", "obj"}
       /\ \A k \in DOMAIN v.obj : IsJSONValue(v.obj[k])

\* C10: totality.  The argument is any JSON value, and whatever the call
\* returns is a JSON value again: a failed Base64 decode, invalid UTF-8 and
\* a failed JSON parse never show as an error or as any other outcome.
Totality ==
    /\ pc \in {"ready", "done"}
    /\ IsJSONValue(data)
    /\ (pc = "done" => IsJSONValue(result))

\* the call returned on a string that is no Base64, on one that is binary
\* and on one that is not JSON: each is a value, none an error
TotalityWitness ==
    /\ pc = "done"
    /\ data.type = "array"
    /\ Len(data.arr) = 2
    /\ data.arr[1].type = "string"
    /\ ~Candidate(data.arr[1].str)
    /\ data.arr[2].type = "string"
    /\ Candidate(data.arr[2].str)
    /\ utf8Valid(Decoded(data.arr[2].str))
    /\ ~Unmarshal(Trimmed(data.arr[2].str)).ok
    /\ IsJSONValue(result)

\* C19 as stated: a non-empty string of Base64-alphabet characters whose
\* length is a multiple of 4 is never returned unchanged.
AlphabetOnlyAlwaysDecoded ==
    pc = "done" /\ data.type = "string" /\ data.str # <<>>
        /\ Len(data.str) % 4 = 0
        /\ ~HasByteOutside(data.str, Alphabet)
    => result # data

\* C19 amended: a string of Base64-alphabet characters whose length is a
\* multiple of 4 always passes the validity test, and the call replaces it
\* by its decoded content exactly when the decoded bytes are valid UTF-8;
\* when they are not, it is returned unchanged.
AlphabetOnlyDecodedIfText ==
    pc = "done" /\ data.type = "string" /\ data.str # <<>>
        /\ Len(data.str) % 4 = 0
        /\ ~HasByteOutside(data.str, Alphabet)
    => /\ IsBase64(data.str)
       /\ (utf8Valid(Decoded(data.str)) =>
            /\ result # data
            /\ result = IF Unmarshal(Trimmed(data.str)).ok
                        THEN DecodeBase64Fields(Unmarshal(Trimmed(data.str)).v)
                        ELSE String(Trimmed(data.str)))
       /\ (~utf8Valid(Decoded(data.str)) => result = data)

\* "MMMM" passes the validity test, decodes to the bytes 30 C3 0C, which are
\* no UTF-8 text, and comes back as it went in
AlphabetOnlyWitness ==
    /\ pc = "done"
    /\ data = String(<<77, 77, 77, 77>>)
    /\ IsBase64(data.str)
    /\ Decoded(data.str) = <<48, 195, 12>>
    /\ result = data

\* C20 as stated: whenever the trimmed text t of a candidate is not JSON
\* and is itself a (non-empty) Base64 candidate, t is returned and a second
\* call on the result changes it.
SecondCallAlwaysDiffers ==
    pc = "done" /\ data.type = "string" /\ Candidate(data.str)
        /\ utf8Valid(Decoded(data.str))
        /\ ~Unmarshal(Trimmed(data.str)).ok
        /\ Trimmed(data.str) # <<>>
        /\ Candidate(Trimmed(data.str))
    => /\ result = String(Trimmed(data.str))
       /\ DecodeBase64Fields(result) # result

\* C20 amended: when the trimmed text t of a candidate is not JSON, t is
\* returned without a second Base64 test; a second call on the result
\* changes it exactly when t is a non-empty candidate whose decoded bytes
\* are valid UTF-8.
SecondCallDiffers ==
    pc = "done" /\ data.type = "string" /\ Candidate(data.str)
        /\ utf8Valid(Decoded(data.str))
        /\ ~Unmarshal(Trimmed(data.str)).ok
    => /\ result = String(Trimmed(data.str))
       /\ (DecodeBase64Fields(result) # result
            <=> /\ Trimmed(data.str) # <<>>
                /\ Candidate(Trimmed(data.str))
                /\ utf8Valid(Decoded(Trimmed(data.str))))

\* two layers around "abc": the first call returns the Base64 text of the
\* JSON text "abc", a second call returns abc
SecondCallWitness ==
    /\ pc = "done"
    /\ layers = 2
    /\ plain = String(<<97, 98, 99>>)
    /\ result = String(EncodeToString(Marshal(plain)))
    /\ DecodeBase64Fields(result) = plain
    /\ DecodeBase64Fields(result) # result

\* the shell has resolved its input: the CLI holds the bytes read, or
\* decodeJSON was called with one argument
InputResolved ==
    \/ mode = "cli" /\ ~jsonData.nil
    \/ mode = "wasm" /\ Len(jsArgs) = 1

\* the resolved input bytes
InputBytes == IF mode = "cli" THEN jsonData.bytes ELSE ValueString(jsArgs[1])

\* C14: malformed JSON input.  Once the resolved input bytes are no valid
\* JSON, the engine is never called (no argument, no result), nothing is
\* written to stdout and no 'result' is returned; the CLI ends with 'Error
\* parsing JSON' on stderr and status 1, decodeJSON returns an {error}.
ParseErrorReported ==
    InputResolved /\ ~Unmarshal(InputBytes).ok =>
        /\ pc \in {"input", "exit", "decodeJSON", "returned"}
        /\ data = NoResult
        /\ result = NoResult
        /\ stdout = <<>>
        /\ (mode = "cli" /\ pc = "exit" =>
                /\ stderr = <<ErrorLine("Error parsing JSON", SyntaxError)>>
                /\ status = "exit 1")
        /\ (mode = "wasm" /\ pc = "returned" =>
                ret = [error |-> ErrorLine("Invalid JSON", SyntaxError)])

\* the CLI has read the file b, whose content {"a": is no JSON, and ended
ParseErrorWitness ==
    /\ mode = "cli"
    /\ pc = "exit"
    /\ args = <<<<98>>>>
    /\ jsonData = Bytes(<<123, 34, 97, 34, 58>>)
    /\ ~Unmarshal(jsonData.bytes).ok
    /\ stderr = <<ErrorLine("Error parsing JSON", SyntaxError)>>
    /\ status = "exit 1"
    /\ result = NoResult
    /\ stdout = <<>>

\* the command line parses without a flag error and without -h
NoFlags == FlagParse(osArgs).err = nil /\ ~FlagParse(osArgs).help

\* the positional arguments of the command line
Positional == FlagParse(osArgs).args

\* no positional argument, and standard input is absent (Stat fails, or a
\* character device) or its content is empty or white space only
StdinEmptyOrAbsent ==
    /\ Positional = <<>>
    /\ \/ isStdinEmpty(stdin)
       \/ ~stdin.readErr /\ TrimSpace(stdin.content) = <<>>

\* one positional argument that is empty or white space only
ArgumentEmpty == Len(Positional) = 1 /\ TrimSpace(Positional[1]) = <<>>

\* one positional argument naming a file that is empty or white space only
FileEmpty ==
    /\ Len(Positional) = 1
    /\ TrimSpace(Positional[1]) \in DOMAIN FileSystem
    /\ ~FileSystem[TrimSpace(Positional[1])].dir
    /\ TrimSpace(FileSystem[TrimSpace(Positional[1])].content) = <<>>

\* C15 as stated: whenever the input supplied is empty or white space only,
\* or none is provided, the run ends with the usage text and status 0.
EmptyInputAlwaysUsage ==
    mode = "cli" /\ pc = "exit" /\ NoFlags
        /\ (StdinEmptyOrAbsent \/ ArgumentEmpty \/ FileEmpty)
    => stdout = <<UsageText>> /\ status = "exit 0" /\ stderr = <<>>

\* C15 amended: with no positional argument and standard input absent,
\* empty or white space only, the run ends with the usage text and status
\* 0; an empty or white-space argument ends with 'Error reading input' and
\* status 1, an empty or white-space file with 'Error parsing JSON' and
\* status 1, both without usage text.
EmptyStdinUsage ==
    mode = "cli" /\ pc = "exit" /\ NoFlags =>
        /\ (StdinEmptyOrAbsent =>
                /\ stdout = <<UsageText>>
                /\ status = "exit 0"
                /\ stderr = <<>>
                /\ result = NoResult)
        /\ (ArgumentEmpty =>
                /\ stdout = <<>>
                /\ status = "exit 1"
                /\ stderr = <<ErrorLine("Error reading input",
                                        WrapError(<<>>, PathError("open")))>>)
        /\ (FileEmpty =>
                /\ stdout = <<>>
                /\ status = "exit 1"
                /\ stderr = <<ErrorLine("Error parsing JSON", SyntaxError)>>)

\* no argument, a space and a line end on standard input: the usage text
EmptyStdinWitness ==
    /\ mode = "cli"
    /\ pc = "exit"
    /\ osArgs = <<>>
    /\ stdin = Stdin("pipe", <<32, 10>>, FALSE)
    /\ err = ErrEmptyInput
    /\ stdout = <<UsageText>>
    /\ status = "exit 0"

\* C16 as stated: more than one positional argument is reported and the
\* usage text is shown.
TooManyArgumentsUsage ==
    mode = "cli" /\ pc = "exit" /\ NoFlags /\ Len(Positional) > 1
    => stderr # <<>> /\ \E i \in 1..Len(stdout) : stdout[i] = UsageText

\* C16 amended: more than one positional argument ends with 'Error reading
\* input: too many arguments provided' on stderr and status 1; nothing is
\* read, parsed or decoded, and no usage text is shown.
TooManyArgumentsError ==
    mode = "cli" /\ NoFlags /\ Len(Positional) > 1 =>
        /\ pc \in {"flag.Parse", "main", "input", "exit"}
        /\ jsonData.nil
        /\ data = NoResult
        /\ result = NoResult
        /\ stdout = <<>>
        /\ (pc = "exit" =>
                /\ stderr = <<ErrorLine("Error reading input",
                                ErrorString("too many arguments provided"))>>
                /\ status = "exit 1")

\* the JSON text and a file name as two arguments
TooManyArgumentsWitness ==
    /\ mode = "cli"
    /\ pc = "exit"
    /\ args = <<JSONText, <<100>>>>
    /\ err = ErrorString("too many arguments provided")
    /\ stdout = <<>>
    /\ status = "exit 1"

\* the single positional argument names a file, and os.Open fails on it
UnopenableFile ==
    /\ Len(Positional) = 1
    /\ ~HasPrefixAt(TrimSpace(Positional[1]), 1, <<123>>)
    /\ ~HasPrefixAt(TrimSpace(Positional[1]), 1, <<91>>)
    /\ TrimSpace(Positional[1]) \notin DOMAIN FileSystem

\* C17: unreadable input source.  When the single argument names a file
\* that cannot be opened, the run ends with 'Error reading input' on stderr
\* and status 1; nothing is parsed or decoded and stdout stays empty.
UnreadableReported ==
    mode = "cli" /\ NoFlags /\ UnopenableFile =>
        /\ pc \in {"flag.Parse", "main", "input", "exit"}
        /\ jsonData.nil
        /\ data = NoResult
        /\ result = NoResult
        /\ stdout = <<>>
        /\ (pc = "exit" =>
                /\ stderr = <<ErrorLine("Error reading input",
                                WrapError(TrimSpace(Positional[1]),
                                          PathError("open")))>>
                /\ status = "exit 1")

\* the argument m, a file that does not exist
UnreadableWitness ==
    /\ mode = "cli"
    /\ pc = "exit"
    /\ args = <<<<109>>>>
    /\ err = WrapError(<<109>>, PathError("open"))
    /\ stderr = <<ErrorLine("Error reading input", err)>>
    /\ status = "exit 1"
    /\ stdout = <<>>

\* C18: the WASM entry point.  What decodeJSON returns has exactly one of
\* the keys result and error; it is result, the JSON text of the decoded
\* parsed argument, exactly when there is one argument and its string
\* parses as JSON.
WasmResultOrError ==
    mode = "wasm" /\ pc = "returned" =>
        /\ DOMAIN ret \in {{"result"}, {"error"}}
        /\ (DOMAIN ret = {"result"}
                <=> Len(jsArgs) = 1 /\ Unmarshal(ValueString(jsArgs[1])).ok)
        /\ (DOMAIN ret = {"result"} =>
                ret.result =
                    Marshal(DecodeBase64Fields(Unmarshal(ValueString(jsArgs[1])).v)))

\* decodeJSON('{"a":"SGk="}') has returned {result: '{"a":"Hi"}'}
WasmWitness ==
    /\ mode = "wasm"
    /\ pc = "returned"
    /\ jsArgs = <<JSString(JSONText)>>
    /\ ret = [result |-> Marshal(Object([k \in {<<97>>} |-> String(Hi)]))]


\* the value call c was given, as it stood in the heap when the call began
Root(c) == Store(EmptyHeap, c, input[c]).val

\* the number of cells of the argument of call c
InputCells(c) == Len(Store(EmptyHeap, c, input[c]).heap[c])

Finished(c) == stack[c] = <<>>

\* C11: at every step of a call and after it, the tree the call was given
\* still stands for the value it stood for when the call began, and every
\* cell the call has written into is a cell created after the call began,
\* never a cell of the argument
InputNeverMutated ==
    \A c \in Calls :
        /\ Load(heap, Root(c)) = input[c]
        /\ \A a \in written[c] : a[1] = c /\ a[2] > InputCells(c)

\* a call on an object has returned a value that differs from its argument,
\* has written cells, and the argument is as it was
InputNeverMutatedWitness ==
    \E c \in Calls :
        /\ Finished(c)
        /\ input[c].type = "object"
        /\ written[c] # {}
        /\ Load(heap, returned[c]) # input[c]
        /\ Load(heap, Root(c)) = input[c]

Max(S) == CHOOSE x \in S : \A y \in S : y <= x

RECURSIVE NestingDepth(_)
\* how deep arrays and objects are nested in a value
NestingDepth(v) ==
    IF v.type = "array" THEN
        1 + Max({0} \cup {NestingDepth(v.arr[i]) : i \in DOMAIN v.arr})
    ELSE IF v.type = "object" THEN
        1 + Max({0} \cup {NestingDepth(v.obj[k]) : k \in DOMAIN v.obj})
    ELSE 0

\* the JSON value a string holds in Base64, NoResult if it holds none
Embedded(s) ==
    IF Len(s) % base64BlockSize # validBase64Mod THEN NoResult
    ELSE LET dec == DecodeString(s)
             u == Unmarshal(TrimSpace(dec.out))
         IN  IF ~dec.err /\ utf8Valid(dec.out) /\ u.ok THEN u.v ELSE NoResult

RECURSIVE ExpandedDepth(_)
\* the nesting depth, each string that holds a JSON value in Base64 counting
\* as one level around that value
ExpandedDepth(v) ==
    IF v.type = "array" THEN
        1 + Max({0} \cup {ExpandedDepth(v.arr[i]) : i \in DOMAIN v.arr})
    ELSE IF v.type = "object" THEN
        1 + Max({0} \cup {ExpandedDepth(v.obj[k]) : k \in DOMAIN v.obj})
    ELSE IF v.type = "string" THEN
        LET e == Embedded(v.str)
        IN  IF e # NoResult THEN 1 + ExpandedDepth(e) ELSE 0
    ELSE 0

\* the activations of DecodeBase64Fields on the stack of call c
FieldsDepth(c) ==
    Cardinality({i \in DOMAIN stack[c] : stack[c][i].fn = "DecodeBase64Fields"})

\* C12 as stated: a call never has more activations of DecodeBase64Fields
\* than one per level of nesting of its argument, and one for the leaf
DepthWithinInputNesting ==
    \A c \in Calls : FieldsDepth(c) <= NestingDepth(input[c]) + 1

\* C12: a call never has more activations of DecodeBase64Fields than one
\* per level of nesting of its argument, the levels inside the JSON values
\* that strings hold in Base64 included, and one for the leaf
DepthWithinExpandedNesting ==
    \A c \in Calls : FieldsDepth(c) <= ExpandedDepth(input[c]) + 1

\* the call on the Base64 of [[1]], a string, is four activations deep
DepthWitness ==
    \E c \in Calls :
        /\ input[c].type = "string"
        /\ NestingDepth(input[c]) = 0
        /\ FieldsDepth(c) = 4
        /\ FieldsDepth(c) = ExpandedDepth(input[c]) + 1

\* C13: whatever the interleaving, no cell is package-level, no call reads
\* or writes a cell of another call, and a call that has returned has
\* returned the value DecodeBase64Fields gives for its argument alone
Reentrant ==
    /\ heap[PackageLevel] = <<>>
    /\ \A c \in Calls : \A a \in touched[c] : a[1] = c
    /\ \A c \in Calls :
        Finished(c) => Load(heap, returned[c]) = DecodeBase64Fields(input[c])

\* one call has returned its decoded value while another one, on another
\* argument, is in the middle of its run
ReentrantWitness ==
    \E c, d \in Calls :
        /\ c # d
        /\ input[c] # input[d]
        /\ Finished(c)
        /\ Load(heap, returned[c]) = DecodeBase64Fields(input[c])
        /\ Load(heap, returned[c]) # input[c]
        /\ Len(stack[d]) > 1
        /\ written[d] # {}

RECURSIVE AllSpaceFrom(_, _)
\* every rune of p from index i on is white space (an invalid byte is none)
AllSpaceFrom(p, i) ==
    IF i > Len(p) THEN TRUE
    ELSE /\ ~(DecodeRune(p, i).size = 1 /\ p[i] >= 128)
         /\ IsSpace(DecodeRune(p, i).r)
         /\ AllSpaceFrom(p, i + DecodeRune(p, i).size)

\* C22: empty and white-space text.  The call on the empty string returns
\* the empty string, and the call on a Base64 candidate whose decoded text
\* is white space only returns the empty string, not the candidate.
WhitespaceResolvesToEmpty ==
    pc = "done" /\ data.type = "string" =>
        /\ (data.str = <<>> => IsBase64(data.str) /\ result = String(<<>>))
        /\ (Candidate(data.str) /\ AllSpaceFrom(Decoded(data.str), 1)
                => result = String(<<>>))

\* the Base64 text of a space and a no-break space has come back as the
\* empty string
WhitespaceWitness ==
    /\ pc = "done"
    /\ data = String(EncodeToString(<<32, 194, 160>>))
    /\ Candidate(data.str)
    /\ AllSpaceFrom(Decoded(data.str), 1)
    /\ result = String(<<>>)
    /\ result # data

\* the activations of DecodeBase64String on the stack of call c
StringFrames(c) ==
    {i \in DOMAIN stack[c] : stack[c][i].fn = "DecodeBase64String"}

\* the activations of DecodeBase64String, from frame i up, that have decoded
\* their string and called DecodeBase64Fields on what it holds
LayersFrom(c, i) ==
    {j \in StringFrames(c) : j >= i /\ stack[c][j].pc = "return"}

\* in every call: a candidate that is not empty decodes to text shorter
\* than itself; the string of an activation of DecodeBase64String is
\* shorter than the string of every such activation below it; and the
\* decode layers open inside the resolution of a string are at most as
\* many as the string is long, so none for the empty string
LayersShrink ==
    \A c \in Calls : \A i \in StringFrames(c) :
        /\ (IsBase64(stack[c][i].s) /\ stack[c][i].s # <<>>
                => Len(Decoded(stack[c][i].s)) < Len(stack[c][i].s))
        /\ \A j \in StringFrames(c) :
                i < j => Len(stack[c][j].s) < Len(stack[c][i].s)
        /\ Cardinality(LayersFrom(c, i)) <= Len(stack[c][i].s)

RECURSIVE SumSeq(_)
SumSeq(q) == IF q = <<>> THEN 0 ELSE Head(q) + SumSeq(Tail(q))

RECURSIVE StepsOf(_)
\* the number of steps a call of DecodeBase64Fields on the JSON value v
\* takes: for a scalar the default case; for a string the call of
\* DecodeBase64String, its decoding, the steps on the value the string
\* holds in Base64 and the return from them if it holds one, and the
\* return; for an array or an object the call, make, for every element its
\* fetch, its steps and its store, and the two returns
StepsOf(v) ==
    IF v.type = "array" THEN
        4 + SumSeq([i \in DOMAIN v.arr |-> 2 + StepsOf(v.arr[i])])
    ELSE IF v.type = "object" THEN
        4 + SumSeq([i \in 1..Cardinality(DOMAIN v.obj) |->
                        2 + StepsOf(v.obj[SortKeys(DOMAIN v.obj)[i]])])
    ELSE IF v.type = "string" THEN
        LET e == Embedded(v.str)
        IN  IF e # NoResult THEN 4 + StepsOf(e) ELSE 3
    ELSE 1

\* the steps of the elements of slice cell s from index i on
SliceRest(h, s, i) ==
    SumSeq([k \in 1..(Len(s) - i + 1) |-> 2 + StepsOf(Load(h, s[i + k - 1]))])

\* the steps of the members of map cell m under the keys K
MapRest(h, m, K) ==
    SumSeq([k \in 1..Cardinality(K) |-> 2 + StepsOf(Load(h, m[SortKeys(K)[k]]))])

\* the steps frame f has left to take itself, those of the calls it has
\* yet to make included, those of the frames above it not
FrameSteps(h, f) ==
    IF f.fn = "DecodeBase64Fields" THEN
        IF f.pc = "switch" THEN StepsOf(Load(h, f.data)) ELSE 1
    ELSE IF f.fn = "DecodeBase64String" THEN
        IF f.pc = "return" THEN 1
        ELSE LET e == Embedded(f.s)
             IN  IF e # NoResult THEN 2 + StepsOf(e) ELSE 1
    ELSE IF f.fn = "DecodeBase64InSlice" THEN
        IF f.pc = "make" THEN 2 + SliceRest(h, Cell(h, f.s).s, 1)
        ELSE IF f.pc = "range" THEN 1 + SliceRest(h, Cell(h, f.s).s, f.i)
        ELSE 2 + SliceRest(h, Cell(h, f.s).s, f.i + 1)
    ELSE
        IF f.pc = "make" THEN
            2 + MapRest(h, Cell(h, f.m).m, DOMAIN Cell(h, f.m).m)
        ELSE IF f.pc = "range" THEN 1 + MapRest(h, Cell(h, f.m).m, f.todo)
        ELSE 2 + MapRest(h, Cell(h, f.m).m, f.todo \ {f.key})

\* the steps call c has left to take
Rank(h, st, c) == SumSeq([i \in DOMAIN st[c] |-> FrameSteps(h, st[c][i])])

\* call c has taken a step: one step fewer is left to it, and none is
\* left exactly when it has returned
OneStepFewer(c) ==
    LET left == Rank(heap', stack', c) IN
        /\ left = Rank(heap, stack, c) - 1
        /\ left = 0 <=> stack'[c] = <<>>

\* the top frame of call c is at a point where one of the steps applies
Runnable(c) ==
    \/ At(c, "DecodeBase64Fields", "switch")
    \/ At(c, "DecodeBase64Fields", "return")
    \/ At(c, "DecodeBase64InMap", "make")
    \/ At(c, "DecodeBase64InMap", "range")
    \/ At(c, "DecodeBase64InMap", "store")
    \/ At(c, "DecodeBase64InSlice", "make")
    \/ At(c, "DecodeBase64InSlice", "range")
    \/ At(c, "DecodeBase64InSlice", "store")
    \/ At(c, "DecodeBase64String", "decode")
    \/ At(c, "DecodeBase64String", "return")

\* C21: termination.  The nested strings a call resolves get strictly
\* shorter, the nested decode layers are at most as many as the string
\* resolved is long, and the empty string is returned without a further
\* call; a call that has not returned can take a step; and every step of
\* a call takes one from the finite number of steps left to it, which is
\* 0 exactly when the call has returned.  So every call returns after as
\* many steps as its argument fixes.
DecodeTerminates ==
    /\ []LayersShrink
    /\ [](\A c \in Calls : ~Finished(c) => Runnable(c))
    /\ [][\A c \in Calls :
            stack'[c] # stack[c] \/ heap'[c] # heap[c] => OneStepFewer(c)]_vars

\* a call with two activations of DecodeBase64String on its stack, the
\* inner string shorter than the outer one, has steps left, while the other
\* call, on the empty string, has returned it and has none
DecodeTerminatesWitness ==
    \E c, d \in Calls :
        /\ Cardinality(StringFrames(c)) = 2
        /\ Cardinality(LayersFrom(c, 1)) = 1
        /\ \E i, j \in StringFrames(c) :
                i < j /\ Len(stack[c][j].s) < Len(stack[c][i].s)
        /\ Rank(heap, stack, c) > 0
        /\ input[d] = String(<<>>)
        /\ Finished(d)
        /\ returned[d] = String(<<>>)
        /\ Rank(heap, stack, d) = 0

\* the argument, trimmed, begins with { or [
LooksLikeJSON(a) ==
    /\ TrimSpace(a) # <<>>
    /\ TrimSpace(a)[1] \in {123, 91}

\* main has called getJSONInput with one positional argument
OneArgumentTaken ==
    /\ mode = "cli"
    /\ pc \notin {"flag.Parse", "main"}
    /\ ~help
    /\ Len(args) = 1

\* C23: argument interpretation.  A single positional argument that, trimmed,
\* begins with { or [ is the input itself, trimmed, and no file is read; any
\* other argument, valid JSON or not, is the name of a file: the input is
\* the content of that file, or the error of opening or reading it, and
\* never the text of the argument.
ArgumentInterpretation ==
    OneArgumentTaken =>
        IF LooksLikeJSON(args[1])
        THEN /\ jsonData = Bytes(TrimSpace(args[1]))
             /\ err = nil
        ELSE /\ IF TrimSpace(args[1]) \notin DOMAIN FileSystem
                THEN /\ jsonData = NilBytes
                     /\ err = WrapError(TrimSpace(args[1]), PathError("open"))
                ELSE IF FileSystem[TrimSpace(args[1])].dir
                THEN /\ jsonData = NilBytes
                     /\ err = PathError("read")
                ELSE /\ jsonData = Bytes(FileSystem[TrimSpace(args[1])].content)
                     /\ err = nil
             /\ (~jsonData.nil => jsonData.bytes # TrimSpace(args[1]))

\* the argument "SGk=", a JSON string literal, was taken as the name of a
\* file, which does not exist
ArgumentInterpretationWitness ==
    /\ OneArgumentTaken
    /\ pc = "exit"
    /\ args = <<Marshal(String(EncodeToString(Hi)))>>
    /\ IsValidJSON(args[1])
    /\ ~LooksLikeJSON(args[1])
    /\ jsonData.nil
    /\ err = WrapError(args[1], PathError("open"))
    /\ status = "exit 1"
    /\ stdout = <<>>

\* the run has ended with the usage text on stdout and status 0
UsageOutcome ==
    /\ stdout = <<UsageText>>
    /\ stderr = <<>>
    /\ status = "exit 0"

\* the run has ended with an error message on stderr, nothing on stdout
\* and status 1
ErrorOutcome ==
    /\ Len(stderr) = 1
    /\ stderr[1].text \in {"Error reading input", "Error parsing JSON"}
    /\ stdout = <<>>
    /\ status = "exit 1"

\* the run has ended with one line of JSON, the result, on stdout and
\* status 0
ResultOutcome ==
    /\ result # NoResult
    /\ stdout = <<Line(Marshal(result))>>
    /\ stderr = <<>>
    /\ status = "exit 0"

\* the run has ended in flag.Parse: the error of the flag package on stderr,
\* the usage text on stdout and status 2
FlagErrorOutcome ==
    /\ Len(stderr) = 1
    /\ stderr[1].text = "flag"
    /\ stdout = <<UsageText>>
    /\ status = "exit 2"

\* how many of the predicates in the sequence hold
HowMany(outcomes) == Cardinality({i \in DOMAIN outcomes : outcomes[i]})

\* the engine is called only on the value parsed from the input resolved,
\* and a run in which it was called ends in the result outcome only
EngineAfterParseOnly ==
    /\ data # NoResult =>
            /\ err = nil
            /\ ~jsonData.nil
            /\ Unmarshal(jsonData.bytes).ok
            /\ data = Unmarshal(jsonData.bytes).v
    /\ result # NoResult =>
            /\ data # NoResult
            /\ result = DecodeBase64Fields(data)
    /\ pc = "exit" => (result # NoResult <=> ResultOutcome)

\* C24 as stated: every run of the CLI ends in exactly one of three
\* outcomes, usage with status 0, error with status 1, result with status
\* 0, and the engine is called only in the third, on parsed input.
ThreeOutcomes ==
    mode = "cli" =>
        /\ pc = "exit" =>
                HowMany(<<UsageOutcome, ErrorOutcome, ResultOutcome>>) = 1
        /\ EngineAfterParseOnly

\* C24: every run of the CLI ends in exactly one of four outcomes, usage
\* with status 0, error with status 1, result with status 0, or, when
\* flag.Parse rejects the command line, the flag error on stderr with the
\* usage on stdout and status 2; the engine is called only in the result
\* outcome, after the input was resolved and then parsed.
FourOutcomes ==
    mode = "cli" =>
        /\ pc = "exit" =>
                HowMany(<<UsageOutcome, ErrorOutcome, ResultOutcome,
                          FlagErrorOutcome>>) = 1
        /\ EngineAfterParseOnly

\* the run jbdecoder -x has ended with status 2, the flag error on stderr
\* and the usage text on stdout, the engine never called
FourOutcomesWitness ==
    /\ mode = "cli"
    /\ pc = "exit"
    /\ osArgs = <<<<45, 120>>>>
    /\ FlagErrorOutcome
    /\ ~UsageOutcome
    /\ ~ErrorOutcome
    /\ ~ResultOutcome
    /\ data = NoResult
    /\ result = NoResult

====
